---- MODULE Spec2Model ----
(***************************************************************************)
(* A model of the layout and pagination engine of inkwell:                 *)
(*   build_layout -> measure_layout -> place_layout -> paginate            *)
(* (src/src/layout_box.rs, src/src/pdf.rs, src/src/font_metrics.rs).       *)
(*                                                                         *)
(* Numbers.  The program computes in f32 points.  The model computes in    *)
(* integers that count 1/1000 pt (UnitsPerPt), the same 1/1000 grid the    *)
(* font tables use, so that the width of a string at a whole font size is  *)
(* a whole number.  Dimensionless factors are kept as the integers the     *)
(* code multiplies with: a percentage as its number 0..100, a flex factor  *)
(* as a whole number, a line-height multiplier in thousandths.  The        *)
(* inputs the specifications draw are whole points chosen so that every    *)
(* quotient the layouts compute is whole; the model is then the real-      *)
(* number reading of the code.                                             *)
(*                                                                         *)
(* Option<T> is a sequence: << >> for None, <<v>> for Some(v).             *)
(* A String is a sequence of one-character strings.                        *)
(***************************************************************************)
EXTENDS Integers, Sequences, FiniteSets, TLC

units_per_em == 1000

\* the model's grid: 1/1000 pt, the grid of the font tables
UnitsPerPt == units_per_em

Pts(n) == n * UnitsPerPt

None == << >>
Some(v) == <<v>>
IsSome(o) == Len(o) > 0
Get(o) == o[1]
UnwrapOr(o, d) == IF Len(o) > 0 THEN o[1] ELSE d

Max2(a, b) == IF a >= b THEN a ELSE b
Min2(a, b) == IF a <= b THEN a ELSE b

\* f32 division a / b for b # 0
Div(a, b) == a \div b

\* a * m for a multiplier m kept in thousandths
MulMilli(a, m) == (a * m) \div 1000

RECURSIVE SumSeq(_)
SumSeq(s) == IF s = << >> THEN 0 ELSE s[1] + SumSeq(Tail(s))

RECURSIVE SeqsUpTo(_, _)
\* all sequences over S of length 0..n
SeqsUpTo(S, n) ==
    IF n = 0 THEN { << >> }
    ELSE LET shorter == SeqsUpTo(S, n - 1)
         IN  shorter \cup { Append(s, e) : s \in { t \in shorter : Len(t) = n - 1 }, e \in S }

(***************************************************************************)
(* layout.rs: Dimension, Style, JsonNode                                   *)
(***************************************************************************)
Pt(v) == [kind |-> "pt", v |-> v]
Percent(p) == [kind |-> "percent", v |-> p]

\* Dimension::resolve
resolve(d, parent_size) ==
    IF d.kind = "pt" THEN d.v ELSE Div(parent_size * d.v, 100)

\* Style::default(): every field absent
DefaultStyle ==
    [ width |-> None, height |-> None,
      min_width |-> None, min_height |-> None,
      max_width |-> None, max_height |-> None,
      padding |-> None, padding_top |-> None, padding_right |-> None,
      padding_bottom |-> None, padding_left |-> None,
      margin |-> None, margin_top |-> None, margin_right |-> None,
      margin_bottom |-> None, margin_left |-> None,
      direction |-> None, wrap |-> None,
      main_align |-> None, cross_align |-> None,
      gap |-> None, flex |-> None,
      position |-> None,
      top |-> None, right |-> None, bottom |-> None, left |-> None,
      font_size |-> None, font_weight |-> None, font_style |-> None,
      line_height |-> None ]

\* Style::padding_trbl: <<top, right, bottom, left>>
padding_trbl(style) ==
    LET base == UnwrapOr(style.padding, 0)
    IN  << UnwrapOr(style.padding_top, base), UnwrapOr(style.padding_right, base),
           UnwrapOr(style.padding_bottom, base), UnwrapOr(style.padding_left, base) >>

\* Style::margin_trbl: <<top, right, bottom, left>>
margin_trbl(style) ==
    LET base == UnwrapOr(style.margin, 0)
    IN  << UnwrapOr(style.margin_top, base), UnwrapOr(style.margin_right, base),
           UnwrapOr(style.margin_bottom, base), UnwrapOr(style.margin_left, base) >>

\* A JsonNode.  The fields the layout never reads (src, content, text_align,
\* colours, borders) are left out.
JsonNode(node_type, style, children) ==
    [ node_type |-> node_type, style |-> style, children |-> children,
      text |-> None, font_size |-> None, font_weight |-> None, font_style |-> None,
      column_widths |-> None, col_span |-> None, row_span |-> None ]

(***************************************************************************)
(* font_metrics.rs                                                         *)
(***************************************************************************)
\* The characters of the tables that the model's texts use.
TableChars == {" ", "i", "W", "a", "o"}

\* helvetica_widths(), restricted to TableChars
helvetica_widths ==
    [c \in TableChars |->
        CASE c = " " -> 278 [] c = "i" -> 222 [] c = "W" -> 944
          [] c = "a" -> 556 [] c = "o" -> 556]

\* helvetica_bold_widths(), restricted to TableChars
helvetica_bold_widths ==
    [c \in TableChars |->
        CASE c = " " -> 278 [] c = "i" -> 278 [] c = "W" -> 944
          [] c = "a" -> 556 [] c = "o" -> 611]

default_width == 556

\* get_metrics(bold, italic): the table of the variant
get_metrics(bold, italic) ==
    CASE bold /\ italic -> [widths |-> helvetica_bold_widths, default_width |-> default_width]
      [] bold /\ ~italic -> [widths |-> helvetica_bold_widths, default_width |-> default_width]
      [] ~bold /\ italic -> [widths |-> helvetica_widths, default_width |-> default_width]
      [] OTHER -> [widths |-> helvetica_widths, default_width |-> default_width]

\* char_width with no default: a character outside the table has no width
char_width_known_only(metrics, c) ==
    IF c \in DOMAIN metrics.widths THEN metrics.widths[c] ELSE 0

\* FontMetrics::char_width
char_width(metrics, c) ==
    IF c \in DOMAIN metrics.widths THEN metrics.widths[c] ELSE metrics.default_width

RECURSIVE total_units(_, _)
total_units(metrics, text) ==
    IF text = << >> THEN 0
    ELSE char_width(metrics, text[1]) + total_units(metrics, Tail(text))

\* FontMetrics::string_width: (total_units / units_per_em) * font_size
string_width(metrics, text, font_size) ==
    Div(total_units(metrics, text) * font_size, units_per_em)

(***************************************************************************)
(* layout_box.rs: LayoutBox and its accessors                              *)
(***************************************************************************)
\* LayoutBox::new
NewLayoutBox(node) ==
    LET m == margin_trbl(node.style)
    IN  [ x |-> 0, y |-> 0, width |-> 0, height |-> 0,
          margin_top |-> m[1], margin_right |-> m[2],
          margin_bottom |-> m[3], margin_left |-> m[4],
          children |-> << >>,
          \* node.clone(); the clone's own children are never read again
          node |-> [node EXCEPT !.children = << >>],
          lines |-> << >>,
          table |-> None,
          \* history fields, not in the program: the box's path from the root
          \* (id), the first column and the clamped column span
          \* measure_table (m_) and place_table (p_) gave this box when it was
          \* a cell they processed, -1 and 0 while never processed; and
          \* whether measure_table panicked on this box when it was a table
          id |-> << >>,
          m_col |-> -1, m_span |-> 0, p_col |-> -1, p_span |-> 0,
          panicked |-> FALSE ]

RECURSIVE build_at(_, _)
build_at(node, path) ==
    [ NewLayoutBox(node) EXCEPT
        !.id = path,
        !.children = [i \in 1..Len(node.children) |->
                         build_at(node.children[i], Append(path, i))] ]

build_layout(node) == build_at(node, << >>)

resolve_width(b, parent_width) ==
    IF IsSome(b.node.style.width) THEN Some(resolve(Get(b.node.style.width), parent_width)) ELSE None

resolve_height(b, parent_height) ==
    IF IsSome(b.node.style.height) THEN Some(resolve(Get(b.node.style.height), parent_height)) ELSE None

style_width(b) ==
    IF IsSome(b.node.style.width) /\ Get(b.node.style.width).kind = "pt"
    THEN Some(Get(b.node.style.width).v) ELSE None

flex(b) == UnwrapOr(b.node.style.flex, 0)
main_align(b) == UnwrapOr(b.node.style.main_align, "start")
cross_align(b) == UnwrapOr(b.node.style.cross_align, "start")
position(b) == UnwrapOr(b.node.style.position, "static")
\* is_absolute taking no box for absolute
never_absolute(b) == FALSE

is_absolute(b) == position(b) = "absolute"
is_relative(b) == position(b) = "relative"
font_size(b) ==
    IF IsSome(b.node.style.font_size) THEN Get(b.node.style.font_size)
    ELSE UnwrapOr(b.node.font_size, Pts(12))
font_weight(b) ==
    IF IsSome(b.node.style.font_weight) THEN b.node.style.font_weight ELSE b.node.font_weight
font_style(b) ==
    IF IsSome(b.node.style.font_style) THEN b.node.style.font_style ELSE b.node.font_style
is_bold(b) == font_weight(b) = Some("bold")
is_italic(b) == font_style(b) = Some("italic")
line_height_multiplier(b) == UnwrapOr(b.node.style.line_height, 1400)
font_metrics(b) == get_metrics(is_bold(b), is_italic(b))
outer_width(b) == b.margin_left + b.width + b.margin_right
outer_height(b) == b.margin_top + b.height + b.margin_bottom
col_span(b) == Max2(UnwrapOr(b.node.col_span, 1), 1)
row_span(b) == Max2(UnwrapOr(b.node.row_span, 1), 1)

measure_text_width(text, size, metrics) == string_width(metrics, text, size)
\* measure_line_height without the line height multiplier
measure_line_height_plain(size, line_h) == size

measure_line_height(size, line_h) == MulMilli(size, line_h)

(***************************************************************************)
(* layout_box.rs: the measure pass                                         *)
(***************************************************************************)
\* char::is_whitespace, for the characters the model's texts use
IsWhitespace(c) == c \in {" ", "\t", "\n"}

RECURSIVE split_from(_, _, _, _)
\* str::split_whitespace: the maximal runs of non-whitespace characters
split_from(text, i, word, words) ==
    IF i > Len(text)
    THEN IF word = << >> THEN words ELSE Append(words, word)
    ELSE IF IsWhitespace(text[i])
         THEN split_from(text, i + 1, << >>, IF word = << >> THEN words ELSE Append(words, word))
         ELSE split_from(text, i + 1, Append(word, text[i]), words)

split_whitespace(text) == split_from(text, 1, << >>, << >>)

\* wrap_breaks without the test that the current line is not empty
wrap_breaks_always(current, tentative, size, max_width, metrics) ==
    measure_text_width(tentative, size, metrics) > max_width

\* the test of wrap_text that closes the current line before a word
wrap_breaks(current, tentative, size, max_width, metrics) ==
    measure_text_width(tentative, size, metrics) > max_width /\ current # << >>

RECURSIVE wrap_loop(_, _, _, _, _, _, _)
\* the for loop of wrap_text; returns <<lines, current>>
wrap_loop(words, i, lines, current, size, max_width, metrics) ==
    IF i > Len(words) THEN <<lines, current>>
    ELSE LET word == words[i]
             tentative == IF current = << >> THEN word ELSE current \o <<" ">> \o word
         IN  IF wrap_breaks(current, tentative, size, max_width, metrics)
             THEN wrap_loop(words, i + 1, Append(lines, current), word, size, max_width, metrics)
             ELSE wrap_loop(words, i + 1, lines, tentative, size, max_width, metrics)

wrap_text(layout, text, size, line_h, max_width, metrics) ==
    LET r == wrap_loop(split_whitespace(text), 1, << >>, << >>, size, max_width, metrics)
        lines1 == IF r[2] # << >> THEN Append(r[1], r[2]) ELSE r[1]
        lines2 == IF lines1 = << >> THEN << << >> >> ELSE lines1
    IN  [layout EXCEPT !.lines = lines2,
                       !.width = max_width,
                       !.height = measure_line_height(size, line_h) * Len(lines2)]

measure_text(layout, parent_width) ==
    LET text == UnwrapOr(layout.node.text, << >>)
        size == font_size(layout)
        line_h == line_height_multiplier(layout)
        rw == resolve_width(layout, parent_width)
        max_width == IF IsSome(rw) THEN rw ELSE style_width(layout)
        metrics == font_metrics(layout)
    IN  IF IsSome(max_width) /\ Get(max_width) > 0
        THEN wrap_text(layout, text, size, line_h, Get(max_width), metrics)
        ELSE [layout EXCEPT !.lines = <<text>>,
                            !.width = measure_text_width(text, size, metrics),
                            !.height = measure_line_height(size, line_h)]

measure_image(layout, parent_width, parent_height) ==
    [layout EXCEPT !.width = UnwrapOr(resolve_width(layout, parent_width), Pts(100)),
                   !.height = UnwrapOr(resolve_height(layout, parent_height), Pts(100))]

RECURSIVE column_loop(_, _, _, _, _, _)
\* the loop of measure_column; returns <<width, height>>
column_loop(children, i, gap, width, height, flow_index) ==
    IF i > Len(children) THEN <<width, height>>
    ELSE IF is_absolute(children[i])
         THEN column_loop(children, i + 1, gap, width, height, flow_index)
         ELSE column_loop(children, i + 1, gap,
                          Max2(width, outer_width(children[i])),
                          height + outer_height(children[i]) + (IF flow_index > 0 THEN gap ELSE 0),
                          flow_index + 1)

measure_column(children, gap) == column_loop(children, 1, gap, 0, 0, 0)

RECURSIVE row_loop(_, _, _, _, _, _)
\* the loop of measure_row; returns <<width, height>>
row_loop(children, i, gap, width, height, flow_index) ==
    IF i > Len(children) THEN <<width, height>>
    ELSE IF is_absolute(children[i])
         THEN row_loop(children, i + 1, gap, width, height, flow_index)
         ELSE row_loop(children, i + 1, gap,
                       width + outer_width(children[i]) + (IF flow_index > 0 THEN gap ELSE 0),
                       Max2(height, outer_height(children[i])),
                       flow_index + 1)

measure_row(children, gap) == row_loop(children, 1, gap, 0, 0, 0)

RECURSIVE wrapping_row_loop(_, _, _, _, _)
\* the loop of measure_wrapping_row over the record
\* [total_width, total_height, line_width, line_height]
wrapping_row_loop(children, i, gap, max_width, a) ==
    IF i > Len(children) THEN a
    ELSE IF is_absolute(children[i])
         THEN wrapping_row_loop(children, i + 1, gap, max_width, a)
         ELSE LET cw == outer_width(children[i])
                  ch == outer_height(children[i])
              IN  IF a.line_width = 0
                  THEN wrapping_row_loop(children, i + 1, gap, max_width,
                           [a EXCEPT !.line_width = cw, !.line_height = ch])
                  ELSE IF a.line_width + gap + cw > max_width
                  THEN wrapping_row_loop(children, i + 1, gap, max_width,
                           [total_width |-> Max2(a.total_width, a.line_width),
                            total_height |-> a.total_height + a.line_height + gap,
                            line_width |-> cw, line_height |-> ch])
                  ELSE wrapping_row_loop(children, i + 1, gap, max_width,
                           [a EXCEPT !.line_width = a.line_width + gap + cw,
                                     !.line_height = Max2(a.line_height, ch)])

measure_wrapping_row(children, gap, max_width) ==
    LET a == wrapping_row_loop(children, 1, gap, max_width,
                 [total_width |-> 0, total_height |-> 0, line_width |-> 0, line_height |-> 0])
    IN  << Max2(a.total_width, a.line_width), a.total_height + a.line_height >>

\* clamp_min_max with max applied first and min last
clamp_max_min(v, min_d, max_d, parent_size) ==
    LET v1 == IF IsSome(max_d) THEN Min2(v, resolve(Get(max_d), parent_size)) ELSE v
    IN  IF IsSome(min_d) THEN Max2(v1, resolve(Get(min_d), parent_size)) ELSE v1

\* the min/max clamps that end measure_container and measure_table:
\* min is applied first, max last
clamp_min_max(v, min_d, max_d, parent_size) ==
    LET v1 == IF IsSome(min_d) THEN Max2(v, resolve(Get(min_d), parent_size)) ELSE v
    IN  IF IsSome(max_d) THEN Min2(v1, resolve(Get(max_d), parent_size)) ELSE v1

\* skip_active that skips nothing
skip_none(active, col_idx, num_cols) == col_idx

RECURSIVE skip_active(_, _, _)
\* while col_idx < num_cols && active_row_spans[col_idx] > 0 { col_idx += 1 }
skip_active(active, col_idx, num_cols) ==
    IF col_idx < num_cols /\ active[col_idx + 1] > 0
    THEN skip_active(active, col_idx + 1, num_cols)
    ELSE col_idx

RECURSIVE col_total(_, _)
\* the sum of col_span() over the cells of a row, from cell i on
col_total(cells, i) ==
    IF i > Len(cells) THEN 0 ELSE col_span(cells[i]) + col_total(cells, i + 1)

\* count_cols taking the last row's total, not the maximum
count_cols_last(rows, i, num_cols) ==
    IF rows = << >> THEN 0 ELSE col_total(rows[Len(rows)].children, 1)

RECURSIVE count_cols(_, _, _)
\* num_cols of measure_table: the maximum over the rows of col_total
count_cols(rows, i, num_cols) ==
    IF i > Len(rows) THEN num_cols
    ELSE count_cols(rows, i + 1, Max2(num_cols, col_total(rows[i].children, 1)))

\* table_col_widths giving every unspecified column all of the space left
table_col_widths_undivided(defs, num_cols, inner_available, col_gap) ==
    LET declared == [i \in 1..num_cols |->
                        IF IsSome(defs) /\ i <= Len(Get(defs))
                        THEN resolve(Get(defs)[i], inner_available) ELSE 0]
        remaining == Max2(inner_available - SumSeq(declared) - col_gap * (num_cols - 1), 0)
    IN  [i \in 1..num_cols |-> IF declared[i] = 0 THEN remaining ELSE declared[i]]

\* the column widths of measure_table, from the declared widths and the space left
table_col_widths(defs, num_cols, inner_available, col_gap) ==
    LET declared == [i \in 1..num_cols |->
                        IF IsSome(defs) /\ i <= Len(Get(defs))
                        THEN resolve(Get(defs)[i], inner_available) ELSE 0]
        specified_total == SumSeq(declared)
        total_col_gaps == col_gap * (num_cols - 1)
        unspecified == Cardinality({i \in 1..num_cols : declared[i] = 0})
        remaining == Max2(inner_available - specified_total - total_col_gaps, 0)
        default_w == IF unspecified > 0 THEN Div(remaining, unspecified) ELSE 0
    IN  [i \in 1..num_cols |-> IF declared[i] = 0 THEN default_w ELSE declared[i]]

\* for c in col_idx..col_idx + col_span { active[c] = active[c].max(v) }
raise_spans(active, col_idx, span, v) ==
    [c \in 1..Len(active) |->
        IF c - 1 >= col_idx /\ c - 1 < col_idx + span THEN Max2(active[c], v) ELSE active[c]]

\* for span in active.iter_mut() { if *span > 0 { *span -= 1 } }
consume_row(active) == [c \in 1..Len(active) |-> IF active[c] > 0 THEN active[c] - 1 ELSE 0]

\* usize::MAX.  It is 2^64 - 1 in the program; the largest integer TLC
\* represents stands for it.  No page index computed from the model's inputs
\* comes near it except by the saturating cast of an infinite quotient, and
\* no span except one given as usize::MAX itself.
USIZE_MAX == 2147483647

\* row_idx + row_span does not fit a usize.  A build with overflow checks
\* panics at the addition; a build without them wraps the sum to a value
\* below row_idx, so that end < row_idx and the slice
\* row_heights[row_idx..end] panics.  Either way measure_table panics.
span_end_overflows(row_idx, rs) == rs > USIZE_MAX - row_idx

\* cell_row_heights that never adds the excess of a row-spanning cell
cell_row_heights_no_excess(row_heights, row_idx, row_count, rs, cell_height) ==
    IF rs = 1
    THEN [row_heights EXCEPT ![row_idx + 1] = Max2(@, cell_height)]
    ELSE row_heights

\* the row heights after a measured cell of outer height cell_height
cell_row_heights(row_heights, row_idx, row_count, rs, cell_height) ==
    LET rh1 == IF rs = 1
               THEN [row_heights EXCEPT ![row_idx + 1] = Max2(@, cell_height)]
               ELSE row_heights
        end == Min2(row_idx + rs, row_count)
        current == SumSeq(SubSeq(rh1, row_idx + 1, end))
    IN  IF rs > 1 /\ cell_height > current
        THEN [rh1 EXCEPT ![end] = @ + (cell_height - current)]
        ELSE rh1

\* child_parent_height handing the parent's height down through every container
child_parent_height_inherited(layout, explicit_height, parent_height, pad_t, pad_b) ==
    UnwrapOr(explicit_height, parent_height) - pad_t - pad_b

\* child_parent_height of measure_container: the height its children
\* resolve percentages against
child_parent_height(layout, explicit_height, parent_height, pad_t, pad_b) ==
    IF IsSome(explicit_height) \/ layout.node.node_type = "page"
    THEN UnwrapOr(explicit_height, parent_height) - pad_t - pad_b
    ELSE 0

RECURSIVE measure_layout_with_parent(_, _, _)
RECURSIVE measure_container(_, _, _)
RECURSIVE measure_table(_, _, _)
RECURSIVE measure_cells(_, _, _)
RECURSIVE measure_rows(_, _, _)

measure_layout_with_parent(layout, parent_width, parent_height) ==
    CASE layout.node.node_type = "text" -> measure_text(layout, parent_width)
      [] layout.node.node_type \in {"page", "view"} ->
            measure_container(layout, parent_width, parent_height)
      [] layout.node.node_type = "table" -> measure_table(layout, parent_width, parent_height)
      [] layout.node.node_type \in {"row", "cell"} ->
            measure_container(layout, parent_width, parent_height)
      [] layout.node.node_type \in {"image", "svg"} ->
            measure_image(layout, parent_width, parent_height)

measure_container(layout, parent_width, parent_height) ==
    LET style == layout.node.style
        dir == UnwrapOr(style.direction, "column")
        gap == UnwrapOr(style.gap, 0)
        pad == padding_trbl(style)
        pad_t == pad[1]
        pad_r == pad[2]
        pad_b == pad[3]
        pad_l == pad[4]
        explicit_width == resolve_width(layout, parent_width)
        explicit_height == resolve_height(layout, parent_height)
        child_parent_width == UnwrapOr(explicit_width, parent_width) - pad_l - pad_r
        child_parent_h ==
            child_parent_height(layout, explicit_height, parent_height, pad_t, pad_b)
        children == [i \in 1..Len(layout.children) |->
                        measure_layout_with_parent(layout.children[i],
                                                   child_parent_width, child_parent_h)]
        content ==
            IF dir = "column" THEN measure_column(children, gap)
            ELSE IF UnwrapOr(style.wrap, FALSE) /\ IsSome(explicit_width)
                 THEN measure_wrapping_row(children, gap, child_parent_width)
                 ELSE measure_row(children, gap)
        width0 == UnwrapOr(explicit_width, content[1] + pad_l + pad_r)
        height0 == UnwrapOr(explicit_height, content[2] + pad_t + pad_b)
    IN  [layout EXCEPT
            !.children = children,
            !.width = clamp_min_max(width0, style.min_width, style.max_width, parent_width),
            !.height = clamp_min_max(height0, style.min_height, style.max_height, parent_height)]

\* the loop over the cells of one row in measure_table, over the record
\* st = [col_idx, cells, row_heights, active, panic]; a cell that finds no
\* free column ends the loop (break) and is left as it was; a row span
\* whose end does not fit a usize ends the loop with panic set
measure_cells(k, st, ctx) ==
    IF k > Len(st.cells) THEN st
    ELSE LET col == skip_active(st.active, st.col_idx, ctx.num_cols)
         IN  IF col >= ctx.num_cols THEN [st EXCEPT !.col_idx = col]
             ELSE LET cs == Max2(Min2(col_span(st.cells[k]), ctx.num_cols - col), 1)
                      span_width == SumSeq(SubSeq(ctx.col_widths, col + 1, col + cs))
                                        + ctx.col_gap * (cs - 1)
                      cell == [measure_layout_with_parent(st.cells[k], span_width,
                                                          ctx.parent_height)
                                  EXCEPT !.width = span_width, !.m_col = col, !.m_span = cs]
                      rs == row_span(cell)
                  IN  IF rs > 1 /\ span_end_overflows(ctx.row_idx, rs)
                      THEN [st EXCEPT !.panic = TRUE]
                      ELSE measure_cells(k + 1,
                          [col_idx |-> col + cs,
                           cells |-> [st.cells EXCEPT ![k] = cell],
                           row_heights |-> cell_row_heights(st.row_heights, ctx.row_idx,
                                               ctx.row_count, rs, outer_height(cell)),
                           active |-> IF rs > 1 THEN raise_spans(st.active, col, cs, rs)
                                      ELSE st.active,
                           panic |-> FALSE],
                          ctx)

\* the loop over the rows in measure_table, over the record
\* st = [rows, row_heights, active, panic]
measure_rows(r, st, ctx) ==
    IF r > Len(st.rows) THEN st
    ELSE LET after == measure_cells(1,
                          [col_idx |-> skip_active(st.active, 0, ctx.num_cols),
                           cells |-> st.rows[r].children,
                           row_heights |-> st.row_heights,
                           active |-> st.active,
                           panic |-> FALSE],
                          [ctx EXCEPT !.row_idx = r - 1])
         IN  IF after.panic THEN [st EXCEPT !.panic = TRUE]
             ELSE measure_rows(r + 1,
                 [rows |-> [st.rows EXCEPT ![r] = [@ EXCEPT !.children = after.cells]],
                  row_heights |-> after.row_heights,
                  active |-> consume_row(after.active),
                  panic |-> FALSE],
                 ctx)

measure_table(layout, parent_width, parent_height) ==
    LET style == layout.node.style
        row_count == Len(layout.children)
        row_gap == UnwrapOr(style.gap, 0)
        col_gap == UnwrapOr(style.gap, 0)
        pad == padding_trbl(style)
        pad_t == pad[1]
        pad_r == pad[2]
        pad_b == pad[3]
        pad_l == pad[4]
        explicit_width == resolve_width(layout, parent_width)
        explicit_height == resolve_height(layout, parent_height)
        num_cols == count_cols(layout.children, 1, 0)
    IN  IF num_cols = 0 \/ row_count = 0
        THEN [layout EXCEPT !.width = UnwrapOr(explicit_width, 0),
                            !.height = UnwrapOr(explicit_height, 0),
                            !.table = Some([column_widths |-> << >>, row_heights |-> << >>])]
        ELSE
        LET inner_available == Max2(UnwrapOr(explicit_width, parent_width), 0) - pad_l - pad_r
            col_widths == table_col_widths(layout.node.column_widths, num_cols,
                                           inner_available, col_gap)
            inner_width == SumSeq(col_widths) + col_gap * (num_cols - 1)
            done == measure_rows(1,
                        [rows |-> layout.children,
                         row_heights |-> [i \in 1..row_count |-> 0],
                         active |-> [i \in 1..num_cols |-> 0],
                         panic |-> FALSE],
                        [num_cols |-> num_cols, col_widths |-> col_widths, col_gap |-> col_gap,
                         parent_height |-> parent_height, row_idx |-> 0,
                         row_count |-> row_count])
            content_height == SumSeq(done.row_heights) + row_gap * (row_count - 1)
            width0 == UnwrapOr(explicit_width, pad_l + inner_width + pad_r)
            height0 == UnwrapOr(explicit_height, pad_t + content_height + pad_b)
        IN  [layout EXCEPT
                !.children = done.rows,
                !.width = clamp_min_max(width0, style.min_width, style.max_width, parent_width),
                !.height = clamp_min_max(height0, style.min_height, style.max_height,
                                         parent_height),
                !.table = Some([column_widths |-> col_widths,
                                row_heights |-> done.row_heights]),
                !.panicked = done.panic]

\* measure_layout: the root is measured against the A4 page
measure_layout(layout) == measure_layout_with_parent(layout, Pts(595), Pts(842))

(***************************************************************************)
(* layout_box.rs: the place pass                                           *)
(***************************************************************************)
apply_relative_offset(layout) ==
    LET style == layout.node.style
    IN  [layout EXCEPT
            !.y = @ - UnwrapOr(style.top, 0) + UnwrapOr(style.bottom, 0),
            !.x = @ + UnwrapOr(style.left, 0) - UnwrapOr(style.right, 0)]

RECURSIVE flow_count(_, _)
\* children.iter().filter(|c| !c.is_absolute()).count(), from child i on
flow_count(children, i) ==
    IF i > Len(children) THEN 0
    ELSE (IF is_absolute(children[i]) THEN 0 ELSE 1) + flow_count(children, i + 1)

RECURSIVE flow_outer_height(_, _)
flow_outer_height(children, i) ==
    IF i > Len(children) THEN 0
    ELSE (IF is_absolute(children[i]) THEN 0 ELSE outer_height(children[i]))
            + flow_outer_height(children, i + 1)

RECURSIVE flow_outer_width(_, _)
flow_outer_width(children, i) ==
    IF i > Len(children) THEN 0
    ELSE (IF is_absolute(children[i]) THEN 0 ELSE outer_width(children[i]))
            + flow_outer_width(children, i + 1)

RECURSIVE flow_flex(_, _)
flow_flex(children, i) ==
    IF i > Len(children) THEN 0
    ELSE (IF is_absolute(children[i]) THEN 0 ELSE flex(children[i])) + flow_flex(children, i + 1)

\* main_axis with the start case taking the offset of the end case
main_axis_end(align, n, free, gap) == <<free, gap>>

\* the match on main_align of place_column, place_row and place_wrapping_row:
\* <<the distance of the first child from the inner start, base_gap>>
main_axis(align, n, free, gap) ==
    CASE align = "start" -> <<0, gap>>
      [] align = "center" -> <<Div(free, 2), gap>>
      [] align = "end" -> <<free, gap>>
      [] align = "space-between" /\ n > 1 -> <<0, gap + Div(free, n - 1)>>
      [] align = "space-between" /\ n <= 1 -> <<0, gap>>
      [] align = "space-around" -> <<Div(Div(free, n), 2), gap + Div(free, n)>>
      [] align = "space-evenly" -> <<Div(free, n + 1), gap + Div(free, n + 1)>>

\* flex_grown adding one flex unit whatever the child's factor
flex_grown_one_unit(size, child_flex, total_flex, flex_unit) ==
    IF child_flex > 0 /\ total_flex > 0 THEN size + flex_unit ELSE size

\* the size a flow child has after "Apply flex growth"
flex_grown(size, child_flex, total_flex, flex_unit) ==
    IF child_flex > 0 /\ total_flex > 0 THEN size + flex_unit * child_flex ELSE size

RECURSIVE place_layout(_, _, _)
RECURSIVE place_container(_)
RECURSIVE place_table(_)
RECURSIVE place_row_element(_)
RECURSIVE place_cell(_)
RECURSIVE place_absolute_child(_, _, _, _, _, _)
RECURSIVE place_column(_, _, _, _, _, _, _, _)
RECURSIVE place_column_loop(_, _, _, _, _)
RECURSIVE place_row(_, _, _, _, _, _, _, _)
RECURSIVE place_row_loop(_, _, _, _, _)
RECURSIVE place_wrapping_row(_, _, _, _, _, _, _, _)
RECURSIVE place_lines(_, _, _, _, _)
RECURSIVE place_line(_, _, _, _, _, _)
RECURSIVE place_row_children(_, _)
RECURSIVE place_table_rows(_, _, _)
RECURSIVE place_table_cells(_, _, _)
RECURSIVE place_cell_loop(_, _, _, _, _)
RECURSIVE place_absolute_loop(_, _, _)

place_layout(layout, x, y) ==
    LET at == [layout EXCEPT !.x = x + layout.margin_left, !.y = y - layout.margin_top]
        placed ==
            CASE at.node.node_type \in {"page", "view"} -> place_container(at)
              [] at.node.node_type = "table" -> place_table(at)
              [] at.node.node_type = "row" -> place_row_element(at)
              [] at.node.node_type = "cell" -> place_cell(at)
              [] OTHER -> at
    IN  IF is_relative(placed) THEN apply_relative_offset(placed) ELSE placed

\* the loop "for i in absolute_indices" of place_container
place_absolute_loop(layout, i, pad) ==
    IF i > Len(layout.children) THEN layout
    ELSE IF is_absolute(layout.children[i])
         THEN place_absolute_loop(
                 [layout EXCEPT !.children[i] =
                     place_absolute_child(@, layout.x, layout.y, layout.width, layout.height, pad)],
                 i + 1, pad)
         ELSE place_absolute_loop(layout, i + 1, pad)

place_container(layout) ==
    LET style == layout.node.style
        dir == UnwrapOr(style.direction, "column")
        gap == UnwrapOr(style.gap, 0)
        pad == padding_trbl(style)
        inner_w == layout.width - pad[4] - pad[2]
        inner_h == layout.height - pad[1] - pad[3]
        flowed ==
            IF dir = "column"
            THEN place_column(layout, inner_w, inner_h, gap, pad[1], pad[4],
                              main_align(layout), cross_align(layout))
            ELSE IF UnwrapOr(style.wrap, FALSE)
                 THEN place_wrapping_row(layout, inner_w, inner_h, gap, pad[1], pad[4],
                                         main_align(layout), cross_align(layout))
                 ELSE place_row(layout, inner_w, inner_h, gap, pad[1], pad[4],
                                main_align(layout), cross_align(layout))
    IN  place_absolute_loop(flowed, 1, pad)

place_absolute_child(child, container_x, container_y, container_w, container_h, pad) ==
    LET style == child.node.style
        x == IF IsSome(style.left) THEN container_x + pad[4] + Get(style.left)
             ELSE IF IsSome(style.right)
                  THEN container_x + container_w - pad[2] - child.width - Get(style.right)
                  ELSE container_x + pad[4]
        y == IF IsSome(style.top) THEN container_y - pad[1] - Get(style.top)
             ELSE IF IsSome(style.bottom)
                  THEN container_y - container_h + pad[3] + child.height + Get(style.bottom)
                  ELSE container_y - pad[1]
        at == [child EXCEPT !.x = x, !.y = y]
    IN  IF at.node.node_type \in {"page", "view"} THEN place_container(at) ELSE at

\* the loop of place_column over st = [children, cursor_y, flow_index]
place_column_loop(i, st, c, x, pad_l) ==
    IF i > Len(st.children) THEN st.children
    ELSE IF is_absolute(st.children[i]) THEN place_column_loop(i + 1, st, c, x, pad_l)
    ELSE LET child0 == st.children[i]
             child1 == [child0 EXCEPT
                           !.height = flex_grown(@, flex(child0), c.total_flex, c.flex_unit)]
             child2 == IF c.cross_align = "stretch"
                       THEN [child1 EXCEPT
                                !.width = c.inner_w - child1.margin_left - child1.margin_right]
                       ELSE child1
             child_x ==
                 CASE c.cross_align = "start" -> x + pad_l + child2.margin_left
                   [] c.cross_align = "center" ->
                        x + pad_l + Div(c.inner_w - outer_width(child2), 2) + child2.margin_left
                   [] c.cross_align = "end" ->
                        x + pad_l + c.inner_w - outer_width(child2) + child2.margin_left
                   [] c.cross_align = "stretch" -> x + pad_l + child2.margin_left
             child_y == st.cursor_y - child2.margin_top
             child3 == place_layout(child2, child_x - child2.margin_left,
                                    child_y + child2.margin_top)
         IN  place_column_loop(i + 1,
                 [children |-> [st.children EXCEPT ![i] = child3],
                  cursor_y |-> st.cursor_y - outer_height(child3)
                                   - (IF st.flow_index < c.n - 1 THEN c.base_gap ELSE 0),
                  flow_index |-> st.flow_index + 1],
                 c, x, pad_l)

place_column(layout, inner_w, inner_h, gap, pad_t, pad_l, m_align, c_align) ==
    LET n == flow_count(layout.children, 1)
        total_h == flow_outer_height(layout.children, 1) + gap * (n - 1)
        free == Max2(inner_h - total_h, 0)
        total_flex == flow_flex(layout.children, 1)
        flex_unit == IF total_flex > 0 THEN Div(free, total_flex) ELSE 0
        axis == main_axis(m_align, n, free, gap)
    IN  IF n = 0 THEN layout
        ELSE [layout EXCEPT !.children =
                 place_column_loop(1,
                     [children |-> layout.children,
                      cursor_y |-> layout.y - pad_t - axis[1],
                      flow_index |-> 0],
                     [n |-> n, total_flex |-> total_flex, flex_unit |-> flex_unit,
                      base_gap |-> axis[2], cross_align |-> c_align,
                      inner_w |-> inner_w, inner_h |-> inner_h],
                     layout.x, pad_l)]

\* the loop of place_row over st = [children, cursor_x, flow_index]
place_row_loop(i, st, c, y, pad_t) ==
    IF i > Len(st.children) THEN st.children
    ELSE IF is_absolute(st.children[i]) THEN place_row_loop(i + 1, st, c, y, pad_t)
    ELSE LET child0 == st.children[i]
             child1 == [child0 EXCEPT
                           !.width = flex_grown(@, flex(child0), c.total_flex, c.flex_unit)]
             child2 == IF c.cross_align = "stretch"
                       THEN [child1 EXCEPT
                                !.height = c.inner_h - child1.margin_top - child1.margin_bottom]
                       ELSE child1
             child_y ==
                 CASE c.cross_align = "start" -> y - pad_t - child2.margin_top
                   [] c.cross_align = "center" ->
                        y - pad_t - Div(c.inner_h - outer_height(child2), 2) - child2.margin_top
                   [] c.cross_align = "end" ->
                        y - pad_t - (c.inner_h - outer_height(child2)) - child2.margin_top
                   [] c.cross_align = "stretch" -> y - pad_t - child2.margin_top
             child_x == st.cursor_x + child2.margin_left
             child3 == place_layout(child2, child_x - child2.margin_left,
                                    child_y + child2.margin_top)
         IN  place_row_loop(i + 1,
                 [children |-> [st.children EXCEPT ![i] = child3],
                  cursor_x |-> st.cursor_x + outer_width(child3)
                                   + (IF st.flow_index < c.n - 1 THEN c.base_gap ELSE 0),
                  flow_index |-> st.flow_index + 1],
                 c, y, pad_t)

place_row(layout, inner_w, inner_h, gap, pad_t, pad_l, m_align, c_align) ==
    LET n == flow_count(layout.children, 1)
        total_w == flow_outer_width(layout.children, 1) + gap * (n - 1)
        free == Max2(inner_w - total_w, 0)
        total_flex == flow_flex(layout.children, 1)
        flex_unit == IF total_flex > 0 THEN Div(free, total_flex) ELSE 0
        axis == main_axis(m_align, n, free, gap)
    IN  IF n = 0 THEN layout
        ELSE [layout EXCEPT !.children =
                 place_row_loop(1,
                     [children |-> layout.children,
                      cursor_x |-> layout.x + pad_l + axis[1],
                      flow_index |-> 0],
                     [n |-> n, total_flex |-> total_flex, flex_unit |-> flex_unit,
                      base_gap |-> axis[2], cross_align |-> c_align,
                      inner_w |-> inner_w, inner_h |-> inner_h],
                     layout.y, pad_t)]

RECURSIVE group_lines(_, _, _, _, _, _)
\* "Group children into lines" of place_wrapping_row: a sequence of
\* sequences of child indices (from 1)
group_lines(children, i, lines, line_w, gap, inner_w) ==
    IF i > Len(children) THEN lines
    ELSE LET cw == outer_width(children[i])
             last == Len(lines)
         IN  IF line_w = 0
             THEN group_lines(children, i + 1, [lines EXCEPT ![last] = Append(@, i)],
                              cw, gap, inner_w)
             ELSE IF line_w + gap + cw > inner_w
             THEN group_lines(children, i + 1, Append(lines, <<i>>), cw, gap, inner_w)
             ELSE group_lines(children, i + 1, [lines EXCEPT ![last] = Append(@, i)],
                              line_w + gap + cw, gap, inner_w)

RECURSIVE line_outer_width(_, _, _)
line_outer_width(children, idxs, j) ==
    IF j > Len(idxs) THEN 0
    ELSE outer_width(children[idxs[j]]) + line_outer_width(children, idxs, j + 1)

RECURSIVE line_max_height(_, _, _)
\* fold(0.0, f32::max) over the outer heights of a line
line_max_height(children, idxs, j) ==
    IF j > Len(idxs) THEN 0
    ELSE Max2(outer_height(children[idxs[j]]), line_max_height(children, idxs, j + 1))

\* the loop over the children of one line; c = [line_h, base_gap, cross_align, n]
place_line(children, idxs, j, cursor_x, cursor_y, c) ==
    IF j > Len(idxs) THEN children
    ELSE LET child == children[idxs[j]]
             child_y ==
                 CASE c.cross_align = "start" -> cursor_y - child.margin_top
                   [] c.cross_align = "center" ->
                        cursor_y - Div(c.line_h - outer_height(child), 2) - child.margin_top
                   [] c.cross_align = "end" ->
                        cursor_y - (c.line_h - outer_height(child)) - child.margin_top
                   [] c.cross_align = "stretch" -> cursor_y - child.margin_top
             child_x == cursor_x + child.margin_left
             placed == place_layout(child, child_x - child.margin_left,
                                    child_y + child.margin_top)
         IN  place_line([children EXCEPT ![idxs[j]] = placed], idxs, j + 1,
                        cursor_x + outer_width(placed)
                            + (IF j - 1 < c.n - 1 THEN c.base_gap ELSE 0),
                        cursor_y, c)

\* the loop "Place each line"; c = [gap, inner_w, x, pad_l, main_align, cross_align]
place_lines(children, lines, li, cursor_y, c) ==
    IF li > Len(lines) THEN children
    ELSE IF lines[li] = << >> THEN place_lines(children, lines, li + 1, cursor_y, c)
    ELSE LET idxs == lines[li]
             n == Len(idxs)
             line_total_w == line_outer_width(children, idxs, 1) + c.gap * (n - 1)
             line_h == line_max_height(children, idxs, 1)
             free == Max2(c.inner_w - line_total_w, 0)
             axis == main_axis(c.main_align, n, free, c.gap)
             after == place_line(children, idxs, 1, c.x + c.pad_l + axis[1], cursor_y,
                                 [line_h |-> line_h, base_gap |-> axis[2],
                                  cross_align |-> c.cross_align, n |-> n])
         IN  place_lines(after, lines, li + 1, cursor_y - (line_h + c.gap), c)

place_wrapping_row(layout, inner_w, inner_h, gap, pad_t, pad_l, m_align, c_align) ==
    LET lines == group_lines(layout.children, 1, << << >> >>, 0, gap, inner_w)
    IN  [layout EXCEPT !.children =
            place_lines(layout.children, lines, 1, layout.y - pad_t,
                        [gap |-> gap, inner_w |-> inner_w, x |-> layout.x, pad_l |-> pad_l,
                         main_align |-> m_align, cross_align |-> c_align])]

RECURSIVE skip_placed(_, _, _, _)
\* the loops of place_table that pass the columns an earlier row spans:
\* over st = [active, col_idx, cursor_x]; step is what the cursor advances
\* by beyond the column's width (0 before the row's first cell, col_gap
\* between its cells)
skip_placed(st, cols, column_widths, step) ==
    IF st.col_idx < cols /\ st.active[st.col_idx + 1] > 0
    THEN skip_placed([active |-> [st.active EXCEPT ![st.col_idx + 1] = @ - 1],
                      col_idx |-> st.col_idx + 1,
                      cursor_x |-> st.cursor_x + column_widths[st.col_idx + 1] + step],
                     cols, column_widths, step)
    ELSE st

\* the loop over the cells of one row in place_table, over the record
\* st = [cells, col_idx, cursor_x, active]
place_table_cells(k, st, ctx) ==
    IF k > Len(st.cells) THEN st
    ELSE LET sk == skip_placed([active |-> st.active, col_idx |-> st.col_idx,
                                cursor_x |-> st.cursor_x],
                               ctx.cols, ctx.column_widths, ctx.col_gap)
         IN  IF sk.col_idx >= ctx.cols
             THEN [st EXCEPT !.col_idx = sk.col_idx, !.cursor_x = sk.cursor_x,
                             !.active = sk.active]
             ELSE LET cell0 == st.cells[k]
                      cs == Max2(Min2(col_span(cell0), ctx.cols - sk.col_idx), 1)
                      cell_width == SumSeq(SubSeq(ctx.column_widths, sk.col_idx + 1,
                                                  sk.col_idx + cs))
                                        + ctx.col_gap * (cs - 1)
                      rs == Max2(row_span(cell0), 1)
                      end_row == Min2(ctx.row_idx + rs, ctx.row_count)
                      span_height == SumSeq(SubSeq(ctx.row_heights, ctx.row_idx + 1, end_row))
                      available_height ==
                          Max2(span_height - cell0.margin_top - cell0.margin_bottom, 0)
                      cell1 == [cell0 EXCEPT
                                   !.width = cell_width,
                                   !.height = IF @ < available_height
                                              THEN available_height ELSE @,
                                   !.p_col = sk.col_idx, !.p_span = cs]
                      cell_x == sk.cursor_x + cell1.margin_left
                      cell_y == ctx.cursor_y - cell1.margin_top
                      cell2 == place_layout(cell1, cell_x - cell1.margin_left,
                                            cell_y + cell1.margin_top)
                  IN  place_table_cells(k + 1,
                          [cells |-> [st.cells EXCEPT ![k] = cell2],
                           col_idx |-> sk.col_idx + cs,
                           cursor_x |-> sk.cursor_x + cell_width + ctx.col_gap,
                           active |-> raise_spans(sk.active, sk.col_idx, cs, rs - 1)],
                          ctx)

\* the loop over the rows in place_table, over st = [rows, active, cursor_y]
place_table_rows(r, st, ctx) ==
    IF r > Len(st.rows) THEN st.rows
    ELSE LET row_height == IF r <= Len(ctx.row_heights) THEN ctx.row_heights[r] ELSE 0
             row == [st.rows[r] EXCEPT !.x = ctx.start_x, !.y = st.cursor_y,
                                       !.width = ctx.inner_width, !.height = row_height]
             first == skip_placed([active |-> st.active, col_idx |-> 0,
                                   cursor_x |-> ctx.start_x],
                                  ctx.cols, ctx.column_widths, 0)
             after == place_table_cells(1,
                          [cells |-> row.children, col_idx |-> first.col_idx,
                           cursor_x |-> first.cursor_x, active |-> first.active],
                          [ctx EXCEPT !.row_idx = r - 1, !.cursor_y = st.cursor_y])
             rest == skip_placed([active |-> after.active, col_idx |-> after.col_idx,
                                  cursor_x |-> after.cursor_x],
                                 ctx.cols, ctx.column_widths, 0)
         IN  place_table_rows(r + 1,
                 [rows |-> [st.rows EXCEPT ![r] = [row EXCEPT !.children = after.cells]],
                  active |-> rest.active,
                  cursor_y |-> st.cursor_y - (row_height + ctx.row_gap)],
                 ctx)

place_table(layout) ==
    IF ~IsSome(layout.table) THEN layout
    ELSE LET table_layout == Get(layout.table)
             cols == Len(table_layout.column_widths)
             row_count == Len(layout.children)
             pad == padding_trbl(layout.node.style)
             row_gap == UnwrapOr(layout.node.style.gap, 0)
             col_gap == UnwrapOr(layout.node.style.gap, 0)
         IN  IF cols = 0 \/ row_count = 0 THEN layout
             ELSE [layout EXCEPT !.children =
                     place_table_rows(1,
                         [rows |-> layout.children,
                          active |-> [i \in 1..cols |-> 0],
                          cursor_y |-> layout.y - pad[1]],
                         [cols |-> cols, row_count |-> row_count,
                          column_widths |-> table_layout.column_widths,
                          row_heights |-> table_layout.row_heights,
                          col_gap |-> col_gap, row_gap |-> row_gap,
                          start_x |-> layout.x + pad[4],
                          inner_width |-> SumSeq(table_layout.column_widths)
                                              + col_gap * (cols - 1),
                          row_idx |-> 0, cursor_y |-> 0])]

\* the loop of place_row_element: each child is placed at its own x and y
place_row_children(children, i) ==
    IF i > Len(children) THEN children
    ELSE place_row_children(
             [children EXCEPT ![i] = place_layout(@, children[i].x, children[i].y)], i + 1)

place_row_element(layout) ==
    [layout EXCEPT !.children = place_row_children(layout.children, 1)]

\* the loop of place_cell
place_cell_loop(children, i, cursor_y, start_x, gap) ==
    IF i > Len(children) THEN children
    ELSE LET cy == IF i > 1 THEN cursor_y - gap ELSE cursor_y
             placed == place_layout(children[i], start_x, cy)
         IN  place_cell_loop([children EXCEPT ![i] = placed], i + 1,
                             cy - outer_height(placed), start_x, gap)

place_cell(layout) ==
    LET pad == padding_trbl(layout.node.style)
    IN  [layout EXCEPT !.children =
            place_cell_loop(layout.children, 1, layout.y - pad[1], layout.x + pad[4],
                            UnwrapOr(layout.node.style.gap, 0))]

(***************************************************************************)
(* pdf.rs: pagination                                                      *)
(***************************************************************************)
PAGE_HEIGHT_PT == Pts(842)

RECURSIVE find_content_page(_)
find_content_page(root) ==
    IF root.node.node_type \in {"page", "view"} /\ Len(root.children) = 1
       /\ root.children[1].node.node_type \in {"page", "view"}
    THEN find_content_page(root.children[1])
    ELSE root

\* reposition_layout moving the box and leaving its children where they are
reposition_box_only(layout, x_offset, y_offset) ==
    [layout EXCEPT !.x = @ + x_offset, !.y = @ + y_offset]

RECURSIVE reposition_layout(_, _, _)
reposition_layout(layout, x_offset, y_offset) ==
    [layout EXCEPT
        !.x = @ + x_offset,
        !.y = @ + y_offset,
        !.children = [i \in 1..Len(layout.children) |->
                         reposition_layout(layout.children[i], x_offset, y_offset)]]

\* the quotient rounded down instead of up
floor_as_usize(overflow, content_height) ==
    IF content_height = 0 THEN USIZE_MAX
    ELSE IF content_height < 0 THEN 0
    ELSE overflow \div content_height

\* (overflow / content_height).ceil() as usize, for overflow > 0: the cast
\* saturates, so +inf (content_height = 0) becomes usize::MAX and a negative
\* quotient becomes 0
ceil_as_usize(overflow, content_height) ==
    IF content_height = 0 THEN USIZE_MAX
    ELSE IF content_height < 0 THEN 0
    ELSE (overflow + content_height - 1) \div content_height

\* the page number paginate assigns to a direct child of the page
child_page(child, content_bottom, content_height) ==
    LET child_bottom == child.y - child.height
    IN  IF child_bottom >= content_bottom THEN 0
        ELSE ceil_as_usize(content_bottom - child_bottom, content_height)

\* the y the clone of a child is moved by for its page
page_y_offset(page_number, content_height) == page_number * content_height

\* page_assignments of paginate: <<page number, repositioned clone>> per child
page_assignments(page, content_bottom, content_height) ==
    [i \in 1..Len(page.children) |->
        LET p == child_page(page.children[i], content_bottom, content_height)
        IN  << p, IF p > 0
                  THEN reposition_layout(page.children[i], 0, page_y_offset(p, content_height))
                  ELSE page.children[i] >>]

RECURSIVE max_page_of(_, _)
\* page_assignments.iter().map(|(p, _)| *p).max().unwrap_or(0)
max_page_of(assignments, i) ==
    IF i > Len(assignments) THEN 0
    ELSE Max2(assignments[i][1], max_page_of(assignments, i + 1))

RECURSIVE children_for_page(_, _, _)
\* the clones assigned to page_num, in the order of the assignments
children_for_page(assignments, i, page_num) ==
    IF i > Len(assignments) THEN << >>
    ELSE (IF assignments[i][1] = page_num THEN <<assignments[i][2]>> ELSE << >>)
            \o children_for_page(assignments, i + 1, page_num)

\* paginate: [returned, pages].  The loop "for page_num in 0..=max_page"
\* pushes max_page + 1 pages; with max_page = usize::MAX no Vec can hold
\* them and the loop ends in an allocation failure instead of a return.
paginate(root) ==
    LET page == find_content_page(root)
    IN  IF page.node.node_type # "page"
        THEN [returned |-> TRUE,
              pages |-> << [children |-> <<page>>, style |-> DefaultStyle,
                            width |-> page.width, height |-> page.height,
                            padding_top |-> 0, padding_right |-> 0,
                            padding_bottom |-> 0, padding_left |-> 0] >>]
        ELSE
        LET pad == padding_trbl(page.node.style)
            content_top == page.height - pad[1]
            content_bottom == pad[3]
            content_height == content_top - content_bottom
            assignments == page_assignments(page, content_bottom, content_height)
            max_page == max_page_of(assignments, 1)
        IN  IF max_page >= USIZE_MAX
            THEN [returned |-> FALSE, pages |-> << >>]
            ELSE [returned |-> TRUE,
                  pages |-> [k \in 1..(max_page + 1) |->
                                [children |-> children_for_page(assignments, 1, k - 1),
                                 style |-> page.node.style,
                                 width |-> page.width, height |-> page.height,
                                 padding_top |-> pad[1], padding_right |-> pad[2],
                                 padding_bottom |-> pad[3], padding_left |-> pad[4]]]]

(***************************************************************************)
(* pdf.rs, from_layout: the pipeline as a state machine                    *)
(***************************************************************************)
VARIABLES
    root,     \* root_box, the layout tree
    pc,       \* "built", "measured", "placed", "paginated", "aborted", "panicked"
    pages,    \* what paginate returned
    runs,     \* how many times measure then place have run on the tree
    measured, \* history: Some(the tree as measure_layout last left it), else None
    first,    \* history: Some(the tree after the first place), else None
    slots,    \* the four OnceLock<FontMetrics> statics of font_metrics.rs
    threads   \* the request threads that call get_metrics

docvars == <<root, pc, pages, runs, measured, first>>
fontvars == <<slots, threads>>
vars == <<root, pc, pages, runs, measured, first, slots, threads>>

(***************************************************************************)
(* font_metrics.rs, the statics and get_metrics called from several        *)
(* threads.  OnceLock::get_or_init is the std one: get() reads the slot    *)
(* when the cell is complete; otherwise the thread that finds the cell     *)
(* incomplete runs the closure, writes the slot and completes the cell,    *)
(* and a thread that finds it running blocks until it is complete.         *)
(***************************************************************************)
\* how many threads call get_metrics, and how many calls they make in all
MaxThreads == 2
MaxCalls == 3

Threads == 1..MaxThreads

\* static HELVETICA, HELVETICA_BOLD, HELVETICA_OBLIQUE, HELVETICA_BOLD_OBLIQUE
Statics == {"HELVETICA", "HELVETICA_BOLD", "HELVETICA_OBLIQUE", "HELVETICA_BOLD_OBLIQUE"}

\* OnceLock::new(); inits and writes count the runs of the closure and the
\* writes of the slot
EmptyCell == [state |-> "incomplete", value |-> None, inits |-> 0, writes |-> 0]

\* a thread outside get_metrics; seen is what its last call returned,
\* waited whether that call blocked on a running initialization
IdleThread ==
    [pc |-> "idle", static |-> "HELVETICA", bold |-> FALSE, italic |-> FALSE,
     local |-> None, seen |-> None, waited |-> FALSE, calls |-> 0]

\* get_metrics: the static of the variant
static_of(bold, italic) ==
    CASE bold /\ italic -> "HELVETICA_BOLD_OBLIQUE"
      [] bold /\ ~italic -> "HELVETICA_BOLD"
      [] ~bold /\ italic -> "HELVETICA_OBLIQUE"
      [] OTHER -> "HELVETICA"

\* the FontMetrics that the closure of helvetica(), helvetica_bold(),
\* helvetica_oblique(), helvetica_bold_oblique() builds
built_metrics(static) ==
    CASE static = "HELVETICA" ->
             [widths |-> helvetica_widths, default_width |-> default_width]
      [] static = "HELVETICA_BOLD" ->
             [widths |-> helvetica_bold_widths, default_width |-> default_width]
      [] static = "HELVETICA_OBLIQUE" ->
             [widths |-> helvetica_widths, default_width |-> default_width]
      [] OTHER ->
             [widths |-> helvetica_bold_widths, default_width |-> default_width]

\* OnceLock::is_initialized
is_initialized(cell) == cell.state = "complete"

\* a Once that lets every caller run the closure
may_run_always(cell) == TRUE

\* Once::call: the caller that finds the cell incomplete runs the closure
may_run(cell) == cell.state = "incomplete"

RECURSIVE started(_)
\* the calls of get_metrics begun by the threads 1..n
started(n) ==
    IF n = 0 THEN 0
    ELSE threads[n].calls + (IF threads[n].pc = "idle" THEN 0 ELSE 1) + started(n - 1)

\* a request thread calls get_metrics(bold, italic)
Call(t) ==
    /\ threads[t].pc = "idle"
    /\ started(MaxThreads) < MaxCalls
    /\ \E bold \in BOOLEAN, italic \in BOOLEAN :
           threads' = [threads EXCEPT ![t] =
                          [@ EXCEPT !.pc = "get", !.bold = bold, !.italic = italic,
                                    !.static = static_of(bold, italic),
                                    !.waited = FALSE, !.seen = None]]
    /\ UNCHANGED slots
    /\ UNCHANGED docvars

\* get_or_init: if let Some(value) = self.get() { return value; }
GetFast(t) ==
    /\ threads[t].pc = "get"
    /\ LET cell == slots[threads[t].static]
       IN  threads' = [threads EXCEPT ![t] =
                          IF is_initialized(cell)
                          THEN [@ EXCEPT !.pc = "idle", !.seen = cell.value,
                                         !.calls = @ + 1]
                          ELSE [@ EXCEPT !.pc = "call_once"]]
    /\ UNCHANGED slots
    /\ UNCHANGED docvars

\* self.initialize(f): enter the Once
CallOnce(t) ==
    /\ threads[t].pc = "call_once"
    /\ LET s == threads[t].static
           cell == slots[s]
       IN  CASE may_run(cell) ->
                    /\ slots' = [slots EXCEPT ![s].state = "running"]
                    /\ threads' = [threads EXCEPT ![t].pc = "closure"]
             [] ~may_run(cell) /\ cell.state = "running" ->
                    /\ threads' = [threads EXCEPT ![t].pc = "blocked",
                                                  ![t].waited = TRUE]
                    /\ UNCHANGED slots
             [] OTHER ->
                    /\ threads' = [threads EXCEPT ![t].pc = "get_unchecked"]
                    /\ UNCHANGED slots
    /\ UNCHANGED docvars

\* the closure: FontMetrics { widths: ..., default_width: 556, ... }
Closure(t) ==
    /\ threads[t].pc = "closure"
    /\ LET s == threads[t].static
       IN  /\ slots' = [slots EXCEPT ![s].inits = @ + 1]
           /\ threads' = [threads EXCEPT ![t].pc = "write",
                                         ![t].local = Some(built_metrics(s))]
    /\ UNCHANGED docvars

\* the value is moved into the slot
WriteSlot(t) ==
    /\ threads[t].pc = "write"
    /\ LET s == threads[t].static
       IN  /\ slots' = [slots EXCEPT ![s].value = threads[t].local,
                                     ![s].writes = @ + 1]
           /\ threads' = [threads EXCEPT ![t].pc = "finish", ![t].local = None]
    /\ UNCHANGED docvars

\* the Once is completed and the blocked threads are woken
Finish(t) ==
    /\ threads[t].pc = "finish"
    /\ slots' = [slots EXCEPT ![threads[t].static].state = "complete"]
    /\ threads' = [threads EXCEPT ![t].pc = "get_unchecked"]
    /\ UNCHANGED docvars

\* a blocked thread goes on when the cell is complete
Wake(t) ==
    /\ threads[t].pc = "blocked"
    /\ slots[threads[t].static].state = "complete"
    /\ threads' = [threads EXCEPT ![t].pc = "get_unchecked"]
    /\ UNCHANGED slots
    /\ UNCHANGED docvars

\* unsafe { self.get_unchecked() }: the slot is read and returned
GetUnchecked(t) ==
    /\ threads[t].pc = "get_unchecked"
    /\ threads' = [threads EXCEPT ![t] =
                      [@ EXCEPT !.pc = "idle",
                                !.seen = slots[threads[t].static].value,
                                !.calls = @ + 1]]
    /\ UNCHANGED slots
    /\ UNCHANGED docvars

NextMetrics ==
    \E t \in Threads :
        \/ Call(t)
        \/ GetFast(t)
        \/ CallOnce(t)
        \/ Closure(t)
        \/ WriteSlot(t)
        \/ Finish(t)
        \/ Wake(t)
        \/ GetUnchecked(t)

\* how many times measure_layout and place_layout are run on one tree
MaxRuns == 2

\* the state after build_layout(root) for a document of the set Docs
InitOf(Docs) ==
    /\ root \in { build_layout(d) : d \in Docs }
    /\ pc = "built"
    /\ pages = << >>
    /\ runs = 0
    /\ measured = None
    /\ first = None
    /\ slots = [s \in Statics |-> EmptyCell]
    /\ threads = [t \in Threads |-> IdleThread]

RECURSIVE any_panicked(_)
\* measure_table panicked on some table of the tree
any_panicked(b) ==
    b.panicked \/ \E i \in 1..Len(b.children) : any_panicked(b.children[i])

\* 2) measure_layout(&mut root_box); a panic unwinds out of from_layout and
\* no later step runs
Measure ==
    /\ pc = "built"
    /\ LET m == measure_layout(root)
       IN  IF any_panicked(m)
           THEN /\ pc' = "panicked"
                /\ UNCHANGED <<root, measured>>
           ELSE /\ root' = m
                /\ pc' = "measured"
                /\ measured' = Some(m)
    /\ UNCHANGED <<pages, runs, first>>
    /\ UNCHANGED fontvars

\* 3) place_layout(&mut root_box, 0.0, PAGE_HEIGHT_PT)
Place ==
    /\ pc = "measured"
    /\ root' = place_layout(root, 0, PAGE_HEIGHT_PT)
    /\ pc' = "placed"
    /\ runs' = runs + 1
    /\ first' = IF runs = 0 THEN Some(root') ELSE first
    /\ UNCHANGED <<pages, measured>>
    /\ UNCHANGED fontvars

\* measure_layout called again on the tree that was placed
Remeasure ==
    /\ pc = "placed"
    /\ runs < MaxRuns
    /\ root' = measure_layout(root)
    /\ pc' = "measured"
    /\ measured' = Some(root')
    /\ UNCHANGED <<pages, runs, first>>
    /\ UNCHANGED fontvars

\* 4) paginate(&root_box)
Paginate ==
    /\ pc = "placed"
    /\ LET r == paginate(root)
       IN  /\ pc' = IF r.returned THEN "paginated" ELSE "aborted"
           /\ pages' = r.pages
    /\ UNCHANGED <<root, runs, measured, first>>
    /\ UNCHANGED fontvars

\* from_layout: build, measure, place, paginate
Next == Measure \/ Place \/ Paginate

\* the same with measure and place run again on the placed tree
NextRerun == Measure \/ Place \/ Remeasure \/ Paginate

(***************************************************************************)
(* Documents                                                               *)
(***************************************************************************)
\* node with its style fields set from the record over
Styled(node_type, over, children) ==
    JsonNode(node_type,
             [f \in DOMAIN DefaultStyle |->
                 IF f \in DOMAIN over THEN Some(over[f]) ELSE DefaultStyle[f]],
             children)

\* an image of w x h points with further style fields
Image(w, h, over) ==
    Styled("image", [width |-> Pt(Pts(w)), height |-> Pt(Pts(h))] @@ over, << >>)

(***************************************************************************)
(* Text documents: one text node as the root                               *)
(***************************************************************************)
\* the longest text, in characters
MaxTextLen == 5

\* a narrow letter, a wide letter, and two kinds of whitespace
TextAlphabet == {"i", "W", " ", "\n"}

\* no width, a fixed width, a percentage of the 595 pt the root resolves against
TextWidths == {None, Some(Pt(Pts(9))), Some(Percent(2))}

TextNode(text, width) ==
    [JsonNode("text", [DefaultStyle EXCEPT !.width = width], << >>) EXCEPT !.text = text]

TextDocs ==
    { TextNode(Some(t), w) : t \in SeqsUpTo(TextAlphabet, MaxTextLen), w \in TextWidths }
        \cup { TextNode(None, w) : w \in TextWidths }

InitText == InitOf(TextDocs)

SpecText == InitText /\ [][Next]_vars

----------------------------------------------------------------------------
\* The words of a text, stated without the program's loop: a word is a
\* maximal run of characters that are not whitespace.
WordStarts(text) ==
    { a \in 1..Len(text) : ~IsWhitespace(text[a]) /\ (a = 1 \/ IsWhitespace(text[a - 1])) }

WordEnd(text, a) ==
    CHOOSE b \in a..Len(text) :
        /\ \A k \in a..b : ~IsWhitespace(text[k])
        /\ (b = Len(text) \/ IsWhitespace(text[b + 1]))

RECURSIVE WordsFrom(_, _)
WordsFrom(text, from) ==
    LET starts == { a \in WordStarts(text) : a >= from }
    IN  IF starts = {} THEN << >>
        ELSE LET a == CHOOSE m \in starts : \A o \in starts : m <= o
             IN  <<SubSeq(text, a, WordEnd(text, a))>> \o WordsFrom(text, WordEnd(text, a) + 1)

WordsOf(text) == WordsFrom(text, 1)

RECURSIVE JoinBySpace(_)
JoinBySpace(strs) ==
    IF strs = << >> THEN << >>
    ELSE IF Len(strs) = 1 THEN strs[1]
    ELSE strs[1] \o <<" ">> \o JoinBySpace(Tail(strs))

\* the width a text box wraps at, when it wraps
WrapWidth(b) == resolve(Get(b.node.style.width), Pts(595))

Wraps(b) ==
    b.node.node_type = "text" /\ IsSome(b.node.style.width) /\ WrapWidth(b) > 0

LineWidth(b, line) == string_width(font_metrics(b), line, font_size(b))

\* C4: a text measured with a positive width has every line no wider than
\* that width, unless the line is one single word that is itself wider; and
\* the lines joined by single spaces are the words of the text joined by
\* single spaces, no line being empty or starting or ending with a space
\* (so no word is changed, split, dropped or reordered).
C4_WrapLines ==
    (pc # "built" /\ Wraps(root)) =>
        LET text == UnwrapOr(root.node.text, << >>)
        IN  /\ \A i \in 1..Len(root.lines) :
                   \/ LineWidth(root, root.lines[i]) <= WrapWidth(root)
                   \/ /\ \A k \in 1..Len(root.lines[i]) : ~IsWhitespace(root.lines[i][k])
                      /\ LineWidth(root, root.lines[i]) > WrapWidth(root)
            /\ JoinBySpace(root.lines) = JoinBySpace(WordsOf(text))
            /\ WordsOf(text) # << >> =>
                   \A i \in 1..Len(root.lines) :
                       /\ root.lines[i] # << >>
                       /\ ~IsWhitespace(root.lines[i][1])
                       /\ ~IsWhitespace(root.lines[i][Len(root.lines[i])])

\* a wrapped text with a line of two words that fits and a line that is one
\* word wider than the width
C4_Witness ==
    /\ pc = "measured" /\ Wraps(root)
    /\ \E i, j \in 1..Len(root.lines) :
          /\ LineWidth(root, root.lines[i]) > WrapWidth(root)
          /\ Len(WordsOf(root.lines[j])) = 2

(***************************************************************************)
(* Flow documents: a page holding one view of 210 x 210 pt with up to      *)
(* MaxKids children.  Every length is a multiple of 21 pt, so the free     *)
(* space divides evenly among the children, the gaps and the flex units.   *)
(***************************************************************************)
\* the most children of the view
MaxKids == 3

FlowKids ==
    { Image(42, 42, << >>),
      Image(84, 84, [margin |-> Pts(21)]),
      Image(42, 42, [flex |-> 1]),
      Image(42, 42, [flex |-> 2]),
      Image(42, 42, [position |-> "absolute", top |-> Pts(21), left |-> Pts(21)]),
      Image(42, 42, [position |-> "relative", top |-> Pts(21), left |-> Pts(21)]) }

MainAligns == {"start", "center", "end", "space-between", "space-around", "space-evenly"}

AlignDocs ==
    { Styled("page", << >>,
        << Styled("view",
                  [width |-> Pt(Pts(210)), height |-> Pt(Pts(210)),
                   direction |-> d, main_align |-> a, gap |-> g],
                  kids) >>) :
        d \in {"column", "row"}, a \in MainAligns, g \in {0, Pts(21)},
        kids \in SeqsUpTo(FlowKids, MaxKids) }

InitAlign == InitOf(AlignDocs)

SpecAlign == InitAlign /\ [][Next]_vars

----------------------------------------------------------------------------
\* The view of a flow document, and its geometry along the main axis.
TheView(tree) == tree.children[1]

IsRow(c) == UnwrapOr(c.node.style.direction, "column") = "row"

FlowSet(c) == { i \in 1..Len(c.children) : position(c.children[i]) # "absolute" }

FirstFlow(c) == CHOOSE i \in FlowSet(c) : \A j \in FlowSet(c) : i <= j

LastFlow(c) == CHOOSE i \in FlowSet(c) : \A j \in FlowSet(c) : i >= j

\* the size of the content box of c along its main axis
InnerMain(c) ==
    LET pad == padding_trbl(c.node.style)
    IN  IF IsRow(c) THEN c.width - pad[4] - pad[2] ELSE c.height - pad[1] - pad[3]

OuterMain(c, k) == IF IsRow(c) THEN outer_width(k) ELSE outer_height(k)

\* how far the outer leading edge of child k lies beyond the inner start of c
\* (to the right in a row, downwards in a column)
LeadingDist(c, k) ==
    LET pad == padding_trbl(c.node.style)
    IN  IF IsRow(c) THEN (k.x - k.margin_left) - (c.x + pad[4])
        ELSE (c.y - pad[1]) - (k.y + k.margin_top)

\* how far the outer far edge of child k lies beyond the inner start of c
FarDist(c, k) == LeadingDist(c, k) + OuterMain(c, k)

RECURSIVE SumOver(_, _)
\* the sum of f[i] over the finite set S
SumOver(S, f) ==
    IF S = {} THEN 0
    ELSE LET i == CHOOSE j \in S : TRUE IN f[i] + SumOver(S \ {i}, f)

\* the outer main sizes of the flow children plus the gaps between them
FlowExtent(c) ==
    SumOver(FlowSet(c), [i \in FlowSet(c) |-> OuterMain(c, c.children[i])])
        + UnwrapOr(c.node.style.gap, 0) * (Cardinality(FlowSet(c)) - 1)

\* the flow children as measured fit the content box along the main axis
MeasuredFits ==
    /\ IsSome(measured)
    /\ FlowSet(TheView(Get(measured))) # {}
    /\ FlowExtent(TheView(Get(measured))) <= InnerMain(TheView(Get(measured)))

\* C8: in a non-wrapping container with main_align = space-between, after
\* place the first flow child's outer leading edge is at the inner start and,
\* with two or more flow children, the last one's outer far edge is at the
\* inner end, whatever the flex factors.  Stated for the layouts whose
\* flow children fit as measured and whose first and last flow child are not
\* relative: the cases that neither overflow nor a relative
\* offset touches.
C8_SpaceBetween ==
    LET c == TheView(root)
    IN  ( /\ pc = "placed"
          /\ main_align(c) = "space-between"
          /\ MeasuredFits
          /\ ~is_relative(c.children[FirstFlow(c)])
          /\ ~is_relative(c.children[LastFlow(c)]) )
        => /\ LeadingDist(c, c.children[FirstFlow(c)]) = 0
           /\ Cardinality(FlowSet(c)) >= 2 =>
                  FarDist(c, c.children[LastFlow(c)]) = InnerMain(c)

\* C10: when the flow children as measured fit the content box along the
\* main axis, after place every static child's outer box lies inside the
\* content box on that axis, for every main_align and every flex factor.
C10_StaticInside ==
    LET c == TheView(root)
    IN  (pc = "placed" /\ MeasuredFits) =>
            \A i \in FlowSet(c) :
                ~is_relative(c.children[i]) =>
                    /\ LeadingDist(c, c.children[i]) >= 0
                    /\ FarDist(c, c.children[i]) <= InnerMain(c)

(***************************************************************************)
(* Column documents: a page holding one column view, with or without       *)
(* padding, a relative offset of its own, a gap and free space to align.   *)
(***************************************************************************)
ColumnKids ==
    { Image(42, 21, << >>),
      Image(42, 21, [margin |-> Pts(21)]),
      Image(42, 21, [flex |-> 1]),
      Image(42, 21, [position |-> "absolute", top |-> Pts(21), left |-> Pts(21)]),
      Image(42, 21, [position |-> "relative", top |-> Pts(21), left |-> Pts(21)]) }

ColumnDocs ==
    { Styled("page", << >>,
        << Styled("view",
                  [width |-> Pt(Pts(210)), height |-> Pt(Pts(210)),
                   main_align |-> a, gap |-> g] @@ pad @@ rel,
                  kids) >>) :
        a \in {"start", "end"}, g \in {0, Pts(21)},
        pad \in {<< >>, [padding |-> Pts(21)]},
        rel \in {<< >>, [position |-> "relative", top |-> Pts(42)]},
        kids \in SeqsUpTo(ColumnKids, MaxKids) }

InitColumn == InitOf(ColumnDocs)

SpecColumn == InitColumn /\ [][Next]_vars

----------------------------------------------------------------------------
\* a column with main_align = start, gap = 0 and no flow child with flex > 0
PlainColumn(c) ==
    /\ ~IsRow(c)
    /\ main_align(c) = "start"
    /\ UnwrapOr(c.node.style.gap, 0) = 0
    /\ \A i \in FlowSet(c) : flex(c.children[i]) = 0

\* how far down apply_relative_offset has moved the box
OwnOffset(b) ==
    IF is_relative(b)
    THEN UnwrapOr(b.node.style.top, 0) - UnwrapOr(b.node.style.bottom, 0)
    ELSE 0

\* the outer heights of the flow children before child j
HeightBefore(c, j) ==
    SumOver({ i \in FlowSet(c) : i < j },
            [i \in { i \in FlowSet(c) : i < j } |-> outer_height(c.children[i])])

ContentTop(c) == c.y - padding_trbl(c.node.style)[1]

\* C9 as stated: in a column with main_align = start, gap = 0 and no flex,
\* after place the y of the j-th flow child is the parent's content top
\* (parent.y - pad_t) minus the outer heights of the flow children before it.
C9_ChildTop ==
    LET c == TheView(root)
    IN  (pc = "placed" /\ PlainColumn(c)) =>
            \A j \in FlowSet(c) :
                c.children[j].y = ContentTop(c) - HeightBefore(c, j)

\* C9 amended: in a column with main_align = start, gap = 0 and no flex,
\* after place the outer top of the j-th flow child (its y plus its top
\* margin, before its own relative offset) is the parent's content top
\* (parent.y before the parent's own relative offset, minus pad_t) minus the
\* outer heights of the flow children before it; absolute siblings among the
\* flow children do not shift it.
C9_ChildOuterTop ==
    LET c == TheView(root)
    IN  (pc = "placed" /\ PlainColumn(c)) =>
            \A j \in FlowSet(c) :
                c.children[j].y + OwnOffset(c.children[j]) + c.children[j].margin_top
                    = ContentTop(c) + OwnOffset(c) - HeightBefore(c, j)

\* a placed plain column with padding and an offset of its own, where an
\* absolute child stands between a flow child with margins and a relative one
C9_Witness ==
    LET c == TheView(root)
    IN  /\ pc = "placed" /\ PlainColumn(c)
        /\ padding_trbl(c.node.style)[1] > 0
        /\ is_relative(c)
        /\ Len(c.children) = 3
        /\ c.children[1].margin_top > 0
        /\ is_absolute(c.children[2])
        /\ is_relative(c.children[3])

(***************************************************************************)
(* Page documents: a page, 842 pt high or as high as its content, with     *)
(* padding of 0, 21 or 421 pt on every side and up to MaxKids children     *)
(* tall enough to run over the page.                                       *)
(***************************************************************************)
PageKids ==
    { Image(42, 21, << >>),
      Image(42, 399, << >>),
      Image(42, 420, [position |-> "relative", top |-> Pts(21)]),
      Styled("view", << >>, << Image(42, 399, << >>), Image(42, 21, << >>) >>) }

PageDocs ==
    { Styled("page", h @@ pad, kids) :
        h \in {<< >>, [height |-> Pt(Pts(842))]},
        pad \in {<< >>, [padding |-> Pts(21)], [padding |-> Pts(421)]},
        kids \in SeqsUpTo(PageKids, MaxKids) }

InitPage == InitOf(PageDocs)

SpecPage == InitPage /\ [][Next]_vars

----------------------------------------------------------------------------
\* the page whose children paginate distributes
ContentPage == find_content_page(root)

\* page.height - pad_t - pad_b
ContentHeight(page) ==
    page.height - padding_trbl(page.node.style)[1] - padding_trbl(page.node.style)[3]

RECURSIVE ShiftedUp(_, _, _)
\* box b is box a with x unchanged and y raised by dy, and so for every
\* descendant; everything else is equal
ShiftedUp(a, b, dy) ==
    /\ b.x = a.x
    /\ b.y = a.y + dy
    /\ [b EXCEPT !.x = 0, !.y = 0, !.children = << >>]
           = [a EXCEPT !.x = 0, !.y = 0, !.children = << >>]
    /\ Len(b.children) = Len(a.children)
    /\ \A i \in 1..Len(a.children) : ShiftedUp(a.children[i], b.children[i], dy)

\* the places <<page, position>> of the output where the box with this id is
PlacesOf(id) ==
    { pl \in (1..Len(pages)) \X (1..MaxKids + 1) :
        /\ pl[2] <= Len(pages[pl[1]].children)
        /\ pages[pl[1]].children[pl[2]].id = id }

PlaceOf(id) == CHOOSE pl \in PlacesOf(id) : TRUE

\* C2: when paginate returns for a Page, every direct child of the page is
\* on exactly one output page, the children of one output page stand in
\* their original order and are all children of the page, and a child on
\* the page of index k is the original with x unchanged and y raised by
\* k times content_height, descendants included.
C2_OnePageEach ==
    (pc = "paginated" /\ ContentPage.node.node_type = "page") =>
        LET page == ContentPage
            n == Len(page.children)
        IN  /\ \A i \in 1..n : Cardinality(PlacesOf(page.children[i].id)) = 1
            /\ \A i \in 1..n :
                   LET pl == PlaceOf(page.children[i].id)
                   IN  ShiftedUp(page.children[i], pages[pl[1]].children[pl[2]],
                                 (pl[1] - 1) * ContentHeight(page))
            /\ \A i, j \in 1..n :
                   (i < j /\ PlaceOf(page.children[i].id)[1] = PlaceOf(page.children[j].id)[1])
                       => PlaceOf(page.children[i].id)[2] < PlaceOf(page.children[j].id)[2]
            /\ \A k \in 1..Len(pages) :
                   \A q \in 1..Len(pages[k].children) :
                       \E i \in 1..n : pages[k].children[q].id = page.children[i].id

\* paginate returned two pages or more for a Page, the first page holds
\* a child and a later page holds two, one of them with descendants
C2_Witness ==
    /\ pc = "paginated" /\ ContentPage.node.node_type = "page"
    /\ Len(pages) >= 2
    /\ pages[1].children # << >>
    /\ \E k \in 2..Len(pages) :
          /\ Len(pages[k].children) >= 2
          /\ \E q \in 1..Len(pages[k].children) : pages[k].children[q].children # << >>

\* C3: the pipeline ends with paginate returning, and what it returns is at
\* least one page; also when padding_top + padding_bottom reach the page
\* height and a child's bottom is below content_bottom.
C3_PaginateReturns ==
    /\ pc # "aborted"
    /\ pc = "paginated" => Len(pages) >= 1

(***************************************************************************)
(* Table documents: a view 252 pt wide holding one table of up to MaxRows  *)
(* rows.  A cell holds an image of 21 x 21 pt.                             *)
(***************************************************************************)
\* the most rows of the table
MaxRows == 2

Cell(cs, rs) ==
    [Styled("cell", << >>, << Image(21, 21, << >>) >>)
        EXCEPT !.col_span = cs, !.row_span = rs]

\* rows of no cell, of plain cells, with a column span, with a row span in
\* the first or the last column, and with a col_span of 0
RowShapes ==
    { << >>,
      << Cell(None, None) >>,
      << Cell(None, None), Cell(None, None) >>,
      << Cell(Some(2), None), Cell(None, None) >>,
      << Cell(None, Some(2)), Cell(None, None) >>,
      << Cell(None, None), Cell(None, Some(2)) >>,
      << Cell(Some(0), None), Cell(None, None), Cell(None, None) >> }

\* the width the view hands to the table
TableParentWidth == Pts(252)

\* no width (the 252 pt of the view), 210 pt, and 252 pt with 21 pt of
\* padding; with and without a gap
TableStyles ==
    { << >>,
      [gap |-> Pts(21)],
      [width |-> Pt(Pts(210))],
      [width |-> Pt(Pts(210)), gap |-> Pts(21)],
      [width |-> Pt(Pts(252)), padding |-> Pts(21), gap |-> Pts(21)] }

\* column_widths: absent, shorter than the columns, summing to 210 pt or to
\* 252 pt, and with a percentage and a zero
TableDefs ==
    { None,
      Some(<< Pt(Pts(84)) >>),
      Some(<< Pt(Pts(105)), Pt(Pts(105)) >>),
      Some(<< Pt(Pts(126)), Pt(Pts(126)) >>),
      Some(<< Percent(50), Pt(0) >>) }

TableDocs ==
    { Styled("view", [width |-> Pt(TableParentWidth)],
        << [Styled("table", st, [r \in 1..Len(rows) |-> Styled("row", << >>, rows[r])])
               EXCEPT !.column_widths = defs] >>) :
        st \in TableStyles, defs \in TableDefs, rows \in SeqsUpTo(RowShapes, MaxRows) }

InitTable == InitOf(TableDocs)

SpecTable == InitTable /\ [][Next]_vars

----------------------------------------------------------------------------
TheTable(tree) == tree.children[1]

\* the table has been measured and has a column
HasColumns(t) == IsSome(t.table) /\ Len(Get(t.table).column_widths) > 0

NumCols(t) == Len(Get(t.table).column_widths)

TableGap(t) == UnwrapOr(t.node.style.gap, 0)

\* (explicit width else parent width) - pad_l - pad_r
UnclampedInner(t) ==
    UnwrapOr(resolve_width(t, TableParentWidth), TableParentWidth)
        - padding_trbl(t.node.style)[4] - padding_trbl(t.node.style)[2]

\* the same with the width taken as 0 when it is negative
ClampedInner(t) ==
    Max2(UnwrapOr(resolve_width(t, TableParentWidth), TableParentWidth), 0)
        - padding_trbl(t.node.style)[4] - padding_trbl(t.node.style)[2]

\* the declared width of column i resolved against inner; 0 when absent
DeclaredWidth(t, i, inner) ==
    IF IsSome(t.node.column_widths) /\ i <= Len(Get(t.node.column_widths))
    THEN resolve(Get(t.node.column_widths)[i], inner)
    ELSE 0

DeclaredSum(t, inner) ==
    SumOver(1..NumCols(t), [i \in 1..NumCols(t) |-> DeclaredWidth(t, i, inner)])

UnspecifiedCols(t, inner) == { i \in 1..NumCols(t) : DeclaredWidth(t, i, inner) = 0 }

\* the column widths and the gaps between the columns
GridWidth(t) == SumSeq(Get(t.table).column_widths) + TableGap(t) * (NumCols(t) - 1)

\* C5 as stated: after measure_table with num_cols > 0, the column widths
\* and gaps add up to inner_width whenever a column is unspecified or the
\* declared widths sum to inner_width exactly.
C5_GridFills ==
    LET t == TheTable(root)
    IN  ( /\ pc # "built" /\ HasColumns(t)
          /\ \/ UnspecifiedCols(t, UnclampedInner(t)) # {}
             \/ DeclaredSum(t, UnclampedInner(t)) = UnclampedInner(t) )
        => GridWidth(t) = UnclampedInner(t)

\* C5 amended: after measure_table with num_cols > 0, the column widths and
\* gaps add up to inner_width (the width taken as at least 0) when a column
\* is unspecified and the declared widths plus the gaps do not exceed
\* inner_width, or when no column is unspecified and the declared widths
\* plus the gaps equal inner_width.
C5_GridFillsWhenRoom ==
    LET t == TheTable(root)
        inner == ClampedInner(t)
        gaps == TableGap(t) * (NumCols(t) - 1)
    IN  ( /\ pc # "built" /\ HasColumns(t)
          /\ \/ /\ UnspecifiedCols(t, inner) # {}
                /\ DeclaredSum(t, inner) + gaps <= inner
             \/ /\ UnspecifiedCols(t, inner) = {}
                /\ DeclaredSum(t, inner) + gaps = inner )
        => GridWidth(t) = inner

\* a measured table with a gap, a declared column and two unspecified ones
\* that share the room left
C5_Witness ==
    LET t == TheTable(root)
    IN  /\ pc = "measured" /\ HasColumns(t)
        /\ TableGap(t) > 0
        /\ NumCols(t) = 3
        /\ Cardinality(UnspecifiedCols(t, ClampedInner(t))) = 2
        /\ DeclaredSum(t, ClampedInner(t)) + TableGap(t) * 2 < ClampedInner(t)

----------------------------------------------------------------------------
\* col_span of a cell as the solver counts it: at least 1
ClampedSpan(cell) == Max2(UnwrapOr(cell.node.col_span, 1), 1)

RowSpanSum(row) ==
    SumOver(1..Len(row.children),
            [k \in 1..Len(row.children) |-> ClampedSpan(row.children[k])])

\* the maximum over the rows of the sum of the row's col_spans; 0 without rows
MaxSpanSum(t) ==
    LET S == { RowSpanSum(t.children[r]) : r \in 1..Len(t.children) }
    IN  IF S = {} THEN 0 ELSE CHOOSE m \in S : \A o \in S : m >= o

\* C6 as stated: after measure_table, column_widths is as long as the
\* largest sum of col_spans of a row, and row_heights as long as the rows.
C6_Lengths ==
    LET t == TheTable(root)
    IN  pc # "built" =>
            /\ IsSome(t.table)
            /\ Len(Get(t.table).column_widths) = MaxSpanSum(t)
            /\ Len(Get(t.table).row_heights) = Len(t.children)

\* C6 amended: after measure_table of a table with a cell in some row,
\* column_widths is as long as the largest sum of col_spans of a row
\* (a col_span counting as at least 1) and row_heights as long as the rows;
\* for a table with no row or with no cell in any row both are empty.
C6_LengthsWhenCells ==
    LET t == TheTable(root)
    IN  pc # "built" =>
            /\ IsSome(t.table)
            /\ Len(Get(t.table).column_widths) = MaxSpanSum(t)
            /\ Len(Get(t.table).row_heights) =
                   IF MaxSpanSum(t) > 0 THEN Len(t.children) ELSE 0

\* a measured table with a row of no cell under a row of three columns, one
\* of them from a col_span of 0
C6_Witness ==
    LET t == TheTable(root)
    IN  /\ pc = "measured"
        /\ Len(t.children) = 2
        /\ Len(t.children[1].children) = 3
        /\ t.children[1].children[1].node.col_span = Some(0)
        /\ t.children[2].children = << >>
        /\ Len(Get(t.table).row_heights) = 2

----------------------------------------------------------------------------
\* the columns (from 0) the solver gave the cell; none if it gave none
OwnCols(cell) ==
    IF cell.m_col < 0 THEN {} ELSE cell.m_col..(cell.m_col + cell.m_span - 1)

\* the columns of row r that a row-spanning cell of an earlier row occupies
SpannedCols(t, r) ==
    UNION { UNION { IF q + row_span(t.children[q].children[k]) > r
                    THEN OwnCols(t.children[q].children[k]) ELSE {} :
                    k \in 1..Len(t.children[q].children) } :
            q \in 1..(r - 1) }

RowCols(t, r) ==
    UNION { OwnCols(t.children[r].children[k]) : k \in 1..Len(t.children[r].children) }

\* C7 as stated: after the solver has run, in every row the columns of the
\* row's own cells together with the columns occupied by row-spanning cells
\* of earlier rows are exactly 0..num_cols, and every cell of the row has a
\* column.
C7_RowsCover ==
    LET t == TheTable(root)
    IN  (pc # "built" /\ HasColumns(t)) =>
            \A r \in 1..Len(t.children) :
                /\ RowCols(t, r) \cup SpannedCols(t, r) = 0..(NumCols(t) - 1)
                /\ \A k \in 1..Len(t.children[r].children) :
                       t.children[r].children[k].m_col >= 0

\* C7 amended: after the solver has run, in every row the cells that got
\* columns are the first cells of the row, each got at least one column
\* inside 0..num_cols starting at a column no row-spanning cell of an
\* earlier row occupies, and each starts after the columns of the cell
\* before it; and a row that no row-span of an earlier row reaches and whose
\* col_spans sum to num_cols has every cell in a column and its cells
\* cover exactly 0..num_cols.
C7_RowsInOrder ==
    LET t == TheTable(root)
    IN  (pc # "built" /\ HasColumns(t)) =>
            \A r \in 1..Len(t.children) :
                LET cells == t.children[r].children
                IN  /\ \A k \in 1..Len(cells) :
                           cells[k].m_col >= 0 =>
                               /\ cells[k].m_span >= 1
                               /\ OwnCols(cells[k]) \subseteq 0..(NumCols(t) - 1)
                               /\ cells[k].m_col \notin SpannedCols(t, r)
                               /\ k > 1 =>
                                      /\ cells[k - 1].m_col >= 0
                                      /\ cells[k].m_col >= cells[k - 1].m_col + cells[k - 1].m_span
                    /\ (SpannedCols(t, r) = {} /\ RowSpanSum(t.children[r]) = NumCols(t)) =>
                           /\ \A k \in 1..Len(cells) : cells[k].m_col >= 0
                           /\ RowCols(t, r) = 0..(NumCols(t) - 1)

\* a measured table whose first row covers its two columns with a row-span
\* in the first, and whose second row has its first cell moved past that
\* column and its second cell left without one
C7_Witness ==
    LET t == TheTable(root)
    IN  /\ pc = "measured" /\ HasColumns(t)
        /\ NumCols(t) = 2
        /\ Len(t.children) = 2
        /\ RowCols(t, 1) = {0, 1}
        /\ SpannedCols(t, 2) = {0}
        /\ Len(t.children[2].children) = 2
        /\ t.children[2].children[1].m_col = 1
        /\ t.children[2].children[2].m_col < 0

(***************************************************************************)
(* Rerun documents: a page holding one view of 210 x 210 pt whose children *)
(* are flex, margin and relative images, a text, a table, and rows that    *)
(* stand outside any table; measure and place run MaxRuns times.           *)
(***************************************************************************)
RerunKids ==
    { Image(42, 42, [flex |-> 1]),
      Image(42, 42, [margin |-> Pts(21)]),
      Image(42, 42, [position |-> "relative", top |-> Pts(21), left |-> Pts(21)]),
      TextNode(Some(<<"i", " ", "W">>), Some(Pt(Pts(9)))),
      Styled("table", << >>,
             << Styled("row", << >>, << Cell(None, None), Cell(None, None) >>) >>),
      Styled("row", << >>, << Image(42, 42, << >>) >>),
      Styled("row", << >>, << Image(42, 42, [margin |-> Pts(21)]) >>) }

RerunDocs ==
    { Styled("page", << >>,
        << Styled("view",
                  [width |-> Pt(Pts(210)), height |-> Pt(Pts(210)),
                   direction |-> d, cross_align |-> c],
                  kids) >>) :
        d \in {"column", "row"}, c \in {"stretch", "center"},
        kids \in SeqsUpTo(RerunKids, MaxKids) }

InitRerun == InitOf(RerunDocs)

SpecRerun == InitRerun /\ [][NextRerun]_vars

----------------------------------------------------------------------------
RECURSIVE SameGeometry(_, _)
\* x, y, width, height and lines are equal in a and b, box by box
SameGeometry(a, b) ==
    /\ a.x = b.x /\ a.y = b.y
    /\ a.width = b.width /\ a.height = b.height
    /\ a.lines = b.lines
    /\ Len(a.children) = Len(b.children)
    /\ \A i \in 1..Len(a.children) : SameGeometry(a.children[i], b.children[i])

\* C1: after measure_layout and place_layout(root, 0, 842) have run a second
\* time on the tree, every box has the x, y, width, height and lines it had
\* after the first run.
C1_RerunSame ==
    (pc = "placed" /\ runs = 2) => SameGeometry(root, Get(first))

(***************************************************************************)
(* Flex documents: a page holding one view of 210 x 210 pt, a column or a  *)
(* row, whose children carry flex factors 0, 1 and 2.                      *)
(***************************************************************************)
FlexKids ==
    { Image(42, 42, << >>),
      Image(21, 21, [flex |-> 1]),
      Image(21, 21, [flex |-> 2, margin |-> Pts(21)]),
      Image(42, 42, [position |-> "absolute", top |-> Pts(21), left |-> Pts(21)]),
      Image(21, 21, [position |-> "relative", top |-> Pts(21), left |-> Pts(21)]) }

FlexDocs ==
    { Styled("page", << >>,
        << Styled("view",
                  [width |-> Pt(Pts(210)), height |-> Pt(Pts(210)),
                   direction |-> d, main_align |-> a, gap |-> g],
                  kids) >>) :
        d \in {"column", "row"}, a \in {"start", "center"}, g \in {0, Pts(21)},
        kids \in SeqsUpTo(FlexKids, MaxKids) }

InitFlex == InitOf(FlexDocs)

SpecFlex == InitFlex /\ [][Next]_vars

----------------------------------------------------------------------------
\* the size of child k along the main axis of c
MainSize(c, k) == IF IsRow(c) THEN k.width ELSE k.height

\* the sum of the flex factors of the flow children
TotalFlex(c) == SumOver(FlowSet(c), [i \in FlowSet(c) |-> flex(c.children[i])])

\* max(0, inner_main - (outer main sizes of the flow children + gaps))
FreeMain(c) == Max2(0, InnerMain(c) - FlowExtent(c))

\* how far along the main axis apply_relative_offset has moved child k
OwnOffsetMain(c, k) ==
    IF ~is_relative(k) THEN 0
    ELSE IF IsRow(c)
         THEN UnwrapOr(k.node.style.left, 0) - UnwrapOr(k.node.style.right, 0)
         ELSE UnwrapOr(k.node.style.top, 0) - UnwrapOr(k.node.style.bottom, 0)

\* the outer main sizes of the flow children before child j, each followed
\* by a gap
ExtentBefore(c, j) ==
    SumOver({ i \in FlowSet(c) : i < j },
            [i \in { i \in FlowSet(c) : i < j } |->
                OuterMain(c, c.children[i]) + UnwrapOr(c.node.style.gap, 0)])

HeightChoices == {<< >>, [height |-> Pt(Pts(420))], [height |-> Percent(50)]}

PadChoices == {<< >>, [padding |-> Pts(21)]}

HeightDocs ==
    { Styled("page", ph,
        << Styled("view", oh @@ op,
             << Styled("view", ih @@ ip,
                  << Styled("image", [width |-> Pt(Pts(42)), height |-> Percent(p)],
                            << >>) >>) >>) >>) :
        ph \in {<< >>, [height |-> Pt(Pts(842))], [padding |-> Pts(21)]},
        oh \in HeightChoices, op \in PadChoices,
        ih \in HeightChoices, ip \in PadChoices,
        p \in {50, 100} }

InitHeight == InitOf(HeightDocs)

SpecHeight == InitHeight /\ [][Next]_vars

----------------------------------------------------------------------------
\* the height a container measured against parent_height hands to its
\* children: (explicit height else parent height) - pad_t - pad_b when it
\* has an explicit height or is a page, else 0
HandedHeight(c, parent_height) ==
    IF IsSome(c.node.style.height) \/ c.node.node_type = "page"
    THEN (IF IsSome(c.node.style.height)
          THEN resolve(Get(c.node.style.height), parent_height)
          ELSE parent_height)
             - padding_trbl(c.node.style)[1] - padding_trbl(c.node.style)[3]
    ELSE 0

OuterView(tree) == tree.children[1]

InnerView(tree) == tree.children[1].children[1]

ProbeImage(tree) == tree.children[1].children[1].children[1]

AbsKids ==
    { Image(42, 42, << >>),
      Image(63, 21, [margin |-> Pts(21)]),
      Image(42, 42, [position |-> "absolute", top |-> Pts(21), left |-> Pts(21)]),
      Image(1260, 1260, [position |-> "absolute"]),
      Image(21, 21, [position |-> "absolute", margin |-> Pts(21)]) }

\* a column, a row, a row that may wrap, and a row that wraps at 105 pt
AbsFlows ==
    { << >>,
      [direction |-> "row"],
      [direction |-> "row", wrap |-> TRUE],
      [direction |-> "row", wrap |-> TRUE, width |-> Pt(Pts(105))] }

AbsDocs ==
    { Styled("page", << >>, << Styled("view", f @@ g @@ pad, kids) >>) :
        f \in AbsFlows, g \in {<< >>, [gap |-> Pts(21)]},
        pad \in {<< >>, [padding |-> Pts(21)]},
        kids \in SeqsUpTo(AbsKids, MaxKids) }

InitAbs == InitOf(AbsDocs)

SpecAbs == InitAbs /\ [][Next]_vars

----------------------------------------------------------------------------
\* the box without its children whose position is absolute
WithoutAbsolute(b) ==
    [b EXCEPT !.children = SelectSeq(b.children, LAMBDA k : position(k) # "absolute")]

\* C13: the measured width and height of a container (column, row or
\* wrapping row) are those of the same container measured without its
\* absolute children, whatever their number and size.
C13_AbsoluteFree ==
    pc = "measured" =>
        LET v == TheView(root)
            w == measure_layout_with_parent(WithoutAbsolute(v), Pts(595), Pts(842))
        IN  v.width = w.width /\ v.height = w.height

\* a measured wrapping row of two lines with an absolute child wider than
\* the row between its flow children
C13_Witness ==
    LET v == TheView(root)
    IN  /\ pc = "measured"
        /\ UnwrapOr(v.node.style.wrap, FALSE)
        /\ IsSome(v.node.style.width)
        /\ Len(v.children) = 3
        /\ ~(position(v.children[1]) = "absolute")
        /\ position(v.children[2]) = "absolute"
        /\ v.children[2].width > v.width
        /\ ~(position(v.children[3]) = "absolute")
        /\ v.height > outer_height(v.children[1]) + outer_height(v.children[3])

(***************************************************************************)
(* Narrow documents: a page holding one view whose padding may take more   *)
(* than its width or height, holding an image sized in percent or points.  *)
(***************************************************************************)
NarrowDocs ==
    { Styled("page", << >>,
        << Styled("view", [width |-> Pt(Pts(w))] @@ h @@ pad,
             << Styled("image", [width |-> iw, height |-> ih], << >>) >>) >>) :
        w \in {21, 42, 210},
        h \in {<< >>, [height |-> Pt(Pts(21))], [height |-> Pt(Pts(210))]},
        pad \in {<< >>, [padding |-> Pts(21)]},
        iw \in {Percent(50), Percent(100), Pt(Pts(42))},
        ih \in {Percent(50), Pt(Pts(42))} }

InitNarrow == InitOf(NarrowDocs)

SpecNarrow == InitNarrow /\ [][Next]_vars

----------------------------------------------------------------------------
RECURSIVE NonNegative(_)
\* the box and every box below it have width >= 0 and height >= 0
NonNegative(b) ==
    /\ b.width >= 0
    /\ b.height >= 0
    /\ \A i \in 1..Len(b.children) : NonNegative(b.children[i])

\* C14: after measure_layout every box of the tree has width >= 0 and
\* height >= 0, also when the padding of a container is larger than its
\* explicit width so that its children resolve percentages against a
\* negative extent.
C14_NonNegative == pc # "built" => NonNegative(root)

(***************************************************************************)
(* Text box documents: one text node as the root, its text missing, empty, *)
(* blank or not, its width missing, positive, zero or negative, with and   *)
(* without a font size and a line height of its own.                       *)
(***************************************************************************)
\* the longest text of a text box, in characters
MaxBoxTextLen == 3

BoxWidths ==
    { None, Some(Pt(Pts(9))), Some(Pt(0)), Some(Pt(Pts(0 - 9))),
      Some(Percent(2)), Some(Percent(0)) }

TextBoxNode(text, width, size, line_h) ==
    [JsonNode("text",
              [DefaultStyle EXCEPT !.width = width, !.font_size = size,
                                   !.line_height = line_h],
              << >>) EXCEPT !.text = text]

TextBoxDocs ==
    { TextBoxNode(t, w, fs, lh) :
        t \in {None} \cup { Some(q) : q \in SeqsUpTo({"i", " ", "\n"}, MaxBoxTextLen) },
        w \in BoxWidths,
        fs \in {None, Some(Pts(10))},
        lh \in {None, Some(2000)} }

InitTextBox == InitOf(TextBoxDocs)

SpecTextBox == InitTextBox /\ [][Next]_vars

----------------------------------------------------------------------------
\* C15: after measure a text box has at least one line and the height
\* font_size * line_height_multiplier * lines.len(); with a width that
\* resolves to more than 0 its width is that width, and a missing, empty or
\* blank text gives exactly one empty line; otherwise its one line is the
\* text (empty when missing) and its width the string width of the text.
C15_TextBox ==
    (pc # "built" /\ root.node.node_type = "text") =>
        LET text == UnwrapOr(root.node.text, << >>)
            size == IF IsSome(root.node.style.font_size)
                    THEN Get(root.node.style.font_size) ELSE Pts(12)
            mult == UnwrapOr(root.node.style.line_height, 1400)
        IN  /\ Len(root.lines) >= 1
            /\ root.height * 1000 = size * mult * Len(root.lines)
            /\ IF Wraps(root)
               THEN /\ root.width = WrapWidth(root)
                    /\ WordsOf(text) = << >> => root.lines = << << >> >>
               ELSE /\ root.lines = <<text>>
                    /\ root.width = LineWidth(root, text)

\* a measured text box on the wrap path whose text is blank and not empty,
\* with a font size and a line height of its own
C15_Witness ==
    /\ pc = "measured" /\ Wraps(root)
    /\ IsSome(root.node.text) /\ Len(Get(root.node.text)) >= 2
    /\ WordsOf(Get(root.node.text)) = << >>
    /\ root.lines = << << >> >>
    /\ root.node.style.font_size = Some(Pts(10))
    /\ root.node.style.line_height = Some(2000)

----------------------------------------------------------------------------
\* C16: a table with no row, or with no cell in any row, is measured with
\* width 0, height 0 and an empty TableLayout, and place_table leaves its
\* rows where they were; also when the table has an explicit width.
C16_EmptyTableZero ==
    LET t == TheTable(root)
    IN  (pc # "built" /\ MaxSpanSum(t) = 0) =>
            /\ t.width = 0 /\ t.height = 0
            /\ t.table = Some([column_widths |-> << >>, row_heights |-> << >>])
            /\ \A r \in 1..Len(t.children) :
                   /\ t.children[r].x = 0 /\ t.children[r].y = 0
                   /\ t.children[r].width = 0 /\ t.children[r].height = 0

(***************************************************************************)
(* Span documents: a view 252 pt wide holding one table of two rows of up  *)
(* to two cells, a cell's col_span and row_span being missing, 0, 1, 3 or  *)
(* usize::MAX.                                                             *)
(***************************************************************************)
SpanValues == {None, Some(0), Some(1), Some(3), Some(USIZE_MAX)}

\* a first row of one or two plain cells or of one cell with spans, and a
\* second row that begins with a cell with spans
SpanDocs ==
    { Styled("view", [width |-> Pt(TableParentWidth)],
        << Styled("table", << >>,
                  << Styled("row", << >>, first_row),
                     Styled("row", << >>, <<Cell(cs, rs)>> \o rest) >>) >>) :
        first_row \in { << Cell(None, None) >>,
                        << Cell(None, None), Cell(None, None) >> }
                      \cup { << Cell(None, r1) >> : r1 \in SpanValues },
        cs \in SpanValues \ {Some(USIZE_MAX)}, rs \in SpanValues,
        rest \in { << >>, << Cell(None, None) >> } }

InitSpan == InitOf(SpanDocs)

SpecSpan == InitSpan /\ [][Next]_vars

----------------------------------------------------------------------------
\* C17: for every span value measure_table and place_table get through the
\* table: the end of a row span is cut to row_count and no access to
\* row_heights is out of range, so that the pipeline does not panic.
C17_SpansClamped == pc # "panicked"

(***************************************************************************)
(* Clamp documents: a page holding a view, a table, a table without rows,  *)
(* or a table with one styled cell; the styled node has or has not an      *)
(* explicit size, a minimum and a maximum on each axis, the minimum above  *)
(* the maximum when both are there.                                        *)
(***************************************************************************)
ClampWidths ==
    { e @@ mn @@ mx :
        e \in {<< >>, [width |-> Pt(Pts(105))]},
        mn \in {<< >>, [min_width |-> Pt(Pts(126))], [min_width |-> Percent(50)]},
        mx \in {<< >>, [max_width |-> Pt(Pts(84))]} }

ClampHeights ==
    { e @@ mn @@ mx :
        e \in {<< >>, [height |-> Pt(Pts(105))]},
        mn \in {<< >>, [min_height |-> Pt(Pts(126))]},
        mx \in {<< >>, [max_height |-> Pt(Pts(84))]} }

ClampDocs ==
    { Styled("page", << >>, << n >>) :
        n \in UNION { { Styled("view", [padding |-> Pts(21)] @@ st,
                               << Image(42, 42, << >>) >>),
                        Styled("table", [padding |-> Pts(21)] @@ st,
                               << Styled("row", << >>,
                                         << Cell(None, None), Cell(None, None) >>) >>),
                        Styled("table", [padding |-> Pts(21)] @@ st, << >>),
                        Styled("table", << >>,
                               << Styled("row", << >>,
                                    << Styled("cell", st, << Image(21, 21, << >>) >>),
                                       Cell(None, None) >>) >>) } :
                      st \in { w @@ h : w \in ClampWidths, h \in ClampHeights } } }

InitClamp == InitOf(ClampDocs)

SpecClamp == InitClamp /\ [][Next]_vars

----------------------------------------------------------------------------
\* min(max(v, min), max) with min and max resolved against parent_size
MinMaxOf(v, min_d, max_d, parent_size) ==
    LET lo == IF IsSome(min_d) THEN Max2(v, resolve(Get(min_d), parent_size)) ELSE v
    IN  IF IsSome(max_d) THEN Min2(lo, resolve(Get(max_d), parent_size)) ELSE lo

\* the largest element of a set of numbers, 0 for the empty set
MaxOf(S) == IF S = {} THEN 0 ELSE CHOOSE m \in S : \A o \in S : m >= o

\* content + padding of a measured column container or table, per axis
BoxContentWidth(b) ==
    padding_trbl(b.node.style)[4] + padding_trbl(b.node.style)[2]
        + (IF b.node.node_type = "table"
           THEN IF HasColumns(b) THEN GridWidth(b) ELSE 0
           ELSE MaxOf({ outer_width(b.children[i]) : i \in FlowSet(b) }))

BoxContentHeight(b) ==
    padding_trbl(b.node.style)[1] + padding_trbl(b.node.style)[3]
        + (IF b.node.node_type = "table"
           THEN IF HasColumns(b)
                THEN SumSeq(Get(b.table).row_heights)
                         + TableGap(b) * (Len(b.children) - 1)
                ELSE 0
           ELSE SumOver(FlowSet(b), [i \in FlowSet(b) |-> outer_height(b.children[i])])
                    + UnwrapOr(b.node.style.gap, 0) * MaxOf({Cardinality(FlowSet(b)) - 1}))

\* the width and the height the rule gives box b measured against pw, ph
RuleWidth(b, pw) ==
    MinMaxOf(IF IsSome(b.node.style.width) THEN resolve(Get(b.node.style.width), pw)
             ELSE BoxContentWidth(b),
             b.node.style.min_width, b.node.style.max_width, pw)

RuleHeight(b, ph) ==
    MinMaxOf(IF IsSome(b.node.style.height) THEN resolve(Get(b.node.style.height), ph)
             ELSE BoxContentHeight(b),
             b.node.style.min_height, b.node.style.max_height, ph)

\* the node under the page, and the first cell of its first row
ClampNode == root.children[1]

ClampCell == root.children[1].children[1].children[1]

IsCellDoc ==
    /\ ClampNode.node.node_type = "table"
    /\ Len(ClampNode.children) = 1

\* C18 as stated: the measured size of a container or table is, on each
\* axis, min(max(v, min), max) with v the explicit size or else content +
\* padding and min, max resolved against the parent dimension the node was
\* measured against.
C18_MinThenMax ==
    pc = "measured" =>
        /\ ClampNode.width = RuleWidth(ClampNode, Pts(595))
        /\ ClampNode.height = RuleHeight(ClampNode, Pts(842))
        /\ IsCellDoc =>
               /\ ClampCell.width
                      = RuleWidth(ClampCell, Get(ClampNode.table).column_widths[1])
               /\ ClampCell.height = RuleHeight(ClampCell, Pts(842))

\* C18 amended: the rule holds for a page, view or cell measured by
\* measure_container and for a table with at least one column; but the
\* width of a cell of a table is its span width whatever its style, and a
\* table without columns is measured with its explicit size or else 0,
\* without padding and without the clamps.
C18_MinThenMaxWhere ==
    pc = "measured" =>
        /\ (ClampNode.node.node_type = "table" => HasColumns(ClampNode)) =>
               /\ ClampNode.width = RuleWidth(ClampNode, Pts(595))
               /\ ClampNode.height = RuleHeight(ClampNode, Pts(842))
        /\ (ClampNode.node.node_type = "table" /\ ~HasColumns(ClampNode)) =>
               /\ ClampNode.width = UnwrapOr(resolve_width(ClampNode, Pts(595)), 0)
               /\ ClampNode.height = UnwrapOr(resolve_height(ClampNode, Pts(842)), 0)
        /\ IsCellDoc =>
               /\ ClampCell.width = Get(ClampNode.table).column_widths[1]
               /\ ClampCell.height = RuleHeight(ClampCell, Pts(842))

\* a measured view with no explicit width, a min_width above its max_width
\* and the width of the max_width
C18_Witness ==
    /\ pc = "measured"
    /\ ClampNode.node.node_type = "view"
    /\ ClampNode.node.style.width = None
    /\ ClampNode.node.style.min_width = Some(Pt(Pts(126)))
    /\ ClampNode.node.style.max_width = Some(Pt(Pts(84)))
    /\ ClampNode.width = Pts(84)
    /\ ClampNode.node.style.min_height = Some(Pt(Pts(126)))
    /\ ClampNode.node.style.max_height = None
    /\ ClampNode.height = Pts(126)

-----------------------------------------------------------------------------
(***************************************************************************)
(* Family: one text without a width, in every variant of the font, over   *)
(* characters of the tables and a character outside them (the tab).       *)
(***************************************************************************)
MaxFontTextLen == 3

FontChars == {"i", "o", "\t"}

FontNode(text, weight, slant, size) ==
    [JsonNode("text",
              [DefaultStyle EXCEPT !.font_weight = weight, !.font_style = slant,
                                   !.font_size = size],
              << >>) EXCEPT !.text = text]

FontDocs ==
    { FontNode(t, w, sl, fs) :
        t \in {None} \cup { Some(q) : q \in SeqsUpTo(FontChars, MaxFontTextLen) },
        w \in {None, Some("normal"), Some("bold")},
        sl \in {None, Some("normal"), Some("italic")},
        fs \in {None, Some(Pts(10))} }

InitFont == InitOf(FontDocs)

SpecFont == InitFont /\ [][Next]_vars

\* the entry of c in the table of the weight, or 556
TableEntry(bold, c) ==
    IF c \in TableChars
    THEN IF bold THEN helvetica_bold_widths[c] ELSE helvetica_widths[c]
    ELSE 556

RECURSIVE EntrySum(_, _)
EntrySum(bold, text) ==
    IF text = << >> THEN 0
    ELSE TableEntry(bold, text[1]) + EntrySum(bold, Tail(text))

FontText == UnwrapOr(root.node.text, << >>)

-----------------------------------------------------------------------------
\* C19: the string width of a text is the sum over its characters of the
\* table entry of the character, 556 for a character outside the table,
\* times the font size over 1000; it is additive over concatenation; and
\* the italic variant of a weight gives every character the width of the
\* upright variant.
C19_StringWidth ==
    pc # "built" =>
        LET bold == is_bold(root)
            size == font_size(root)
            m == get_metrics(bold, is_italic(root))
        IN  /\ root.width * 1000 = EntrySum(bold, FontText) * size
            /\ string_width(m, FontText, size) = root.width
            /\ \A k \in 0..Len(FontText) :
                   string_width(m, FontText, size)
                     = string_width(m, SubSeq(FontText, 1, k), size)
                       + string_width(m, SubSeq(FontText, k + 1, Len(FontText)), size)
            /\ \A c \in FontChars \cup TableChars :
                   char_width(get_metrics(bold, TRUE), c)
                     = char_width(get_metrics(bold, FALSE), c)

\* a measured bold italic text with a character whose bold entry differs
\* from the regular one and a character outside the tables
C19_Witness ==
    /\ pc = "measured"
    /\ is_bold(root) /\ is_italic(root)
    /\ FontText = <<"o", "\t", "i">>
    /\ root.node.style.font_size = Some(Pts(10))
    /\ root.width = Div((611 + 556 + 278) * Pts(10), 1000)

-----------------------------------------------------------------------------
(***************************************************************************)
(* Family: the request threads call get_metrics, in every variant and in  *)
(* every interleaving, from the state where no table exists.              *)
(***************************************************************************)
InitMetrics == InitOf({FontNode(None, None, None, None)})

SpecMetrics == InitMetrics /\ [][NextMetrics]_vars

\* the thread has returned from a call of get_metrics
Returned(t) == threads[t].pc = "idle" /\ threads[t].calls > 0

-----------------------------------------------------------------------------
\* C20: in every interleaving of the threads that call get_metrics, the
\* closure of each of the four statics runs at most once and its slot is
\* written at most once; a complete cell holds the fully built table of its
\* static, so nothing changes it after its initialization; and every call
\* returns that table, whether it found the cell complete, initialized it
\* or blocked while another thread did, so two calls for one static return
\* the same table.
C20_OneShot ==
    /\ \A s \in Statics :
           /\ slots[s].inits <= 1
           /\ slots[s].writes <= 1
           /\ slots[s].state = "complete" => slots[s].value = Some(built_metrics(s))
           /\ slots[s].state = "incomplete" => slots[s].value = None
    /\ \A t \in Threads :
           Returned(t) =>
               /\ threads[t].seen = Some(get_metrics(threads[t].bold, threads[t].italic))
               /\ threads[t].seen = slots[threads[t].static].value
               /\ slots[threads[t].static].state = "complete"
    /\ \A t, u \in Threads :
           (Returned(t) /\ Returned(u) /\ threads[t].static = threads[u].static) =>
               threads[t].seen = threads[u].seen

\* two threads raced for the bold oblique table: one ran the closure, the
\* other blocked on the running initialization, and both returned the table
C20_Witness ==
    \E t, u \in Threads :
        /\ t # u
        /\ Returned(t) /\ Returned(u)
        /\ threads[t].static = "HELVETICA_BOLD_OBLIQUE"
        /\ threads[u].static = "HELVETICA_BOLD_OBLIQUE"
        /\ ~threads[t].waited /\ threads[u].waited
        /\ slots["HELVETICA_BOLD_OBLIQUE"].inits = 1
        /\ threads[t].seen = Some(built_metrics("HELVETICA_BOLD_OBLIQUE"))
        /\ threads[u].seen = threads[t].seen

-----------------------------------------------------------------------------
\* child.y - child.height of a direct child of the page
ChildBottom(child) == child.y - child.height

\* the index of the output page that holds the direct child
PageIndex(child) == PlaceOf(child.id)[1] - 1

\* C21: paginate puts a direct child whose bottom is at or above
\* content_bottom on page 0; with content_height > 0 it puts a child whose
\* bottom is below content_bottom on the page
\* ceil((content_bottom - bottom) / content_height), which is the one k >= 0
\* whose re-offset bottom + k * content_height lies in
\* [content_bottom, content_bottom + content_height); and a child whose
\* bottom is not above that of another is on no earlier page.
C21_PageOfBottom ==
    (pc = "paginated" /\ ContentPage.node.node_type = "page") =>
        LET page == ContentPage
            cb == padding_trbl(page.node.style)[3]
            ch == ContentHeight(page)
            n == Len(page.children)
        IN  /\ \A i \in 1..n :
                   ChildBottom(page.children[i]) >= cb => PageIndex(page.children[i]) = 0
            /\ ch > 0 =>
                   /\ \A i \in 1..n :
                          LET bottom == ChildBottom(page.children[i])
                              k == PageIndex(page.children[i])
                          IN  /\ bottom < cb =>
                                     /\ (k - 1) * ch < cb - bottom
                                     /\ cb - bottom <= k * ch
                                     /\ cb <= bottom + k * ch
                                     /\ bottom + k * ch < cb + ch
                              /\ \A j \in 0..(n + 1) :
                                     (cb <= bottom + j * ch /\ bottom + j * ch < cb + ch)
                                         => j = k
                   /\ \A i, j \in 1..n :
                          ChildBottom(page.children[i]) >= ChildBottom(page.children[j])
                              => PageIndex(page.children[i]) <= PageIndex(page.children[j])

\* a page with padding whose first child ends above content_bottom and
\* stays on page 0 and whose last child ends below it and is on page 1,
\* its re-offset bottom strictly inside the band
C21_Witness ==
    /\ pc = "paginated" /\ ContentPage.node.node_type = "page"
    /\ ContentHeight(ContentPage) = Pts(800)
    /\ Len(ContentPage.children) = 3
    /\ PageIndex(ContentPage.children[1]) = 0
    /\ PageIndex(ContentPage.children[3]) = 1
    /\ ChildBottom(ContentPage.children[3]) < Pts(21)
    /\ ChildBottom(ContentPage.children[3]) + Pts(800) > Pts(21)

-----------------------------------------------------------------------------
(***************************************************************************)
(* Wrapping rows: a page holding one row view with wrap = true, with or   *)
(* without an explicit width and a max_width, and up to MaxKids children: *)
(* images of 21 and 42 pt, an image of width 0 and an absolute image.     *)
(***************************************************************************)
WrapKids ==
    { Image(21, 21, << >>),
      Image(42, 42, << >>),
      Image(0, 42, << >>),
      Image(42, 21, [position |-> "absolute"]) }

WrapDocs ==
    { Styled("page", << >>,
        << Styled("view", [direction |-> "row", wrap |-> TRUE, gap |-> g] @@ w @@ mw,
                  kids) >>) :
        g \in {0, Pts(21)},
        w \in {<< >>, [width |-> Pt(Pts(63))]},
        mw \in {<< >>, [max_width |-> Pt(Pts(42))]},
        kids \in SeqsUpTo(WrapKids, MaxKids) }

InitWrap == InitOf(WrapDocs)

SpecWrap == InitWrap /\ [][Next]_vars

\* the row view as measure_layout left it
MeasuredView == TheView(Get(measured))

\* the width the measure pass wrapped the view at: explicit width less padding
MeasureMax(c) ==
    Get(resolve_width(c, Pts(595)))
        - padding_trbl(c.node.style)[2] - padding_trbl(c.node.style)[4]

\* the width the place pass wraps the view at
PlaceMax(c) == c.width - padding_trbl(c.node.style)[2] - padding_trbl(c.node.style)[4]

\* the measure pass wrapped the view
MeasureWrapped(c) == IsSome(resolve_width(c, Pts(595)))

RECURSIVE DropEmpty(_)
DropEmpty(lines) ==
    IF lines = << >> THEN << >>
    ELSE (IF Head(lines) = << >> THEN << >> ELSE <<Head(lines)>>) \o DropEmpty(Tail(lines))

RECURSIVE FlowOnly(_, _)
\* the indices of idxs that are not of absolute children
FlowOnly(children, idxs) ==
    IF idxs = << >> THEN << >>
    ELSE (IF is_absolute(children[Head(idxs)]) THEN << >> ELSE <<Head(idxs)>>)
            \o FlowOnly(children, Tail(idxs))

RECURSIVE MeasureLinesFrom(_, _, _, _, _, _)
\* the lines over which the loop of measure_wrapping_row accumulates
\* line_width and line_height, as sequences of child indices
MeasureLinesFrom(children, i, lines, line_width, gap, max_width) ==
    IF i > Len(children) THEN lines
    ELSE IF is_absolute(children[i])
         THEN MeasureLinesFrom(children, i + 1, lines, line_width, gap, max_width)
         ELSE LET cw == outer_width(children[i])
                  last == Len(lines)
              IN  IF line_width = 0
                  THEN MeasureLinesFrom(children, i + 1,
                           [lines EXCEPT ![last] = Append(@, i)], cw, gap, max_width)
                  ELSE IF line_width + gap + cw > max_width
                  THEN MeasureLinesFrom(children, i + 1, Append(lines, <<i>>), cw,
                                        gap, max_width)
                  ELSE MeasureLinesFrom(children, i + 1,
                           [lines EXCEPT ![last] = Append(@, i)],
                           line_width + gap + cw, gap, max_width)

\* the lines the measure pass sized the view by: those of
\* measure_wrapping_row, or the one line of measure_row
MeasureLines(c) ==
    IF MeasureWrapped(c)
    THEN DropEmpty(MeasureLinesFrom(c.children, 1, << << >> >>, 0,
                                    TableGap(c), MeasureMax(c)))
    ELSE DropEmpty(<< FlowOnly(c.children, [i \in 1..Len(c.children) |-> i]) >>)

\* the lines place_wrapping_row groups the children into
PlaceLines(c) ==
    DropEmpty(group_lines(c.children, 1, << << >> >>, 0, TableGap(c), PlaceMax(c)))

\* the same with the absolute children left out
PlaceFlowLines(c) ==
    LET lines == PlaceLines(c)
    IN  DropEmpty([l \in 1..Len(lines) |-> FlowOnly(c.children, lines[l])])

-----------------------------------------------------------------------------
\* C22: place_wrapping_row groups the children of a wrapping row into the
\* same sequence of lines as the measure pass used to size the row, also
\* with absolute children (which are on no line of the measure pass and
\* are left out of the comparison), without an explicit width, with a
\* width changed by max_width and with children of outer width 0.
C22_SameLines ==
    pc = "placed" => PlaceFlowLines(MeasuredView) = MeasureLines(MeasuredView)

-----------------------------------------------------------------------------
\* the width of a line of children: outer widths and the gaps between them
LineExtent(children, idxs, gap) ==
    line_outer_width(children, idxs, 1) + gap * (Len(idxs) - 1)

RECURSIVE GreedyFrom(_, _, _, _, _)
\* greedy packing of the flow children from the i-th on: a child starts a
\* new line exactly when the line with it would be wider than max
GreedyFrom(children, i, lines, gap, max) ==
    IF i > Len(children) THEN lines
    ELSE IF is_absolute(children[i]) THEN GreedyFrom(children, i + 1, lines, gap, max)
    ELSE IF lines = << >> THEN GreedyFrom(children, i + 1, << <<i>> >>, gap, max)
    ELSE LET last == lines[Len(lines)]
         IN  IF LineExtent(children, last, gap) + gap + outer_width(children[i]) > max
             THEN GreedyFrom(children, i + 1, Append(lines, <<i>>), gap, max)
             ELSE GreedyFrom(children, i + 1,
                             [lines EXCEPT ![Len(lines)] = Append(last, i)], gap, max)

GreedyLines(c) == GreedyFrom(c.children, 1, << >>, TableGap(c), MeasureMax(c))

\* the maximum line width, and the sum of the line heights with the gaps
GreedyWidth(c) ==
    LET lines == GreedyLines(c)
    IN  MaxOf({0} \cup { LineExtent(c.children, lines[l], TableGap(c)) : l \in 1..Len(lines) })

GreedyHeight(c) ==
    LET lines == GreedyLines(c)
    IN  SumSeq([l \in 1..Len(lines) |-> line_max_height(c.children, lines[l], 1)])
          + (IF Len(lines) > 1 THEN TableGap(c) * (Len(lines) - 1) ELSE 0)

\* C23: for a wrapping row with an explicit width measure_wrapping_row packs
\* the flow children greedily and returns the maximum line width and the
\* sum over the lines of the maximum outer height plus gap * (lines - 1),
\* which is the height of the row; also with children of outer width 0.
C23_GreedyPacking ==
    (pc # "built" /\ MeasureWrapped(MeasuredView)) =>
        LET c == MeasuredView
        IN  /\ measure_wrapping_row(c.children, TableGap(c), MeasureMax(c))
                   = << GreedyWidth(c), GreedyHeight(c) >>
            /\ c.height = GreedyHeight(c)

-----------------------------------------------------------------------------
(***************************************************************************)
(* Grid documents: a view 252 pt wide holding one table of up to          *)
(* MaxRows + 1 rows, bare or with 21 pt of padding and gap.  A cell holds *)
(* one image 21 pt wide; cells span columns or rows, and one is tall and  *)
(* has margins.                                                           *)
(***************************************************************************)
GridCell(cs, rs, h, over) ==
    [Styled("cell", over, << Image(21, h, << >>) >>)
        EXCEPT !.col_span = cs, !.row_span = rs]

PlainCell == GridCell(None, None, 21, << >>)

GridRowShapes ==
    { << >>,
      << PlainCell, GridCell(None, Some(2), 21, << >>) >>,
      << GridCell(Some(2), None, 21, << >>) >>,
      << PlainCell, PlainCell, GridCell(None, Some(2), 21, << >>) >>,
      << GridCell(None, None, 42, << >>) >>,
      << GridCell(None, Some(2), 84, [margin |-> Pts(21)]), PlainCell >> }

GridStyles == { << >>, [padding |-> Pts(21), gap |-> Pts(21)] }

GridDocs ==
    { Styled("view", [width |-> Pt(TableParentWidth)],
        << Styled("table", st, [r \in 1..Len(rows) |-> Styled("row", << >>, rows[r])]) >>) :
        st \in GridStyles, rows \in SeqsUpTo(GridRowShapes, MaxRows + 1) }

InitGrid == InitOf(GridDocs)

SpecGrid == InitGrid /\ [][Next]_vars

\* the table as measure_layout left it
MeasuredTable == TheTable(Get(measured))

\* the sum of row_heights over the rows r .. min(r + rs, row_count) - 1,
\* r counted from 0
SpanSum(t, r, rs) ==
    SumSeq(SubSeq(Get(t.table).row_heights, r + 1, Min2(r + rs, Len(t.children))))

\* row_heights as measure_table has them after its first k rows
HeightsAfter(t, k) ==
    measure_rows(1,
        [rows |-> SubSeq(t.children, 1, k),
         row_heights |-> [i \in 1..Len(t.children) |-> 0],
         active |-> [i \in 1..NumCols(t) |-> 0],
         panic |-> FALSE],
        [num_cols |-> NumCols(t), col_widths |-> Get(t.table).column_widths,
         col_gap |-> TableGap(t), parent_height |-> 0, row_idx |-> 0,
         row_count |-> Len(t.children)]).row_heights

-----------------------------------------------------------------------------
\* C24: after measure_table the row_heights over the rows a measured cell
\* spans sum to at least the cell's outer height, so a row is at least as
\* high as each of its cells of row_span 1; row_heights never decrease from
\* one row of the loop to the next; and after place_table the height of a
\* placed cell is at least that sum less the cell's vertical margins.
C24_RowHeights ==
    /\ (pc \in {"measured", "placed", "paginated"} /\ HasColumns(MeasuredTable)) =>
           LET t == MeasuredTable
               n == Len(t.children)
           IN  /\ \A r \in 1..n : \A k \in 1..Len(t.children[r].children) :
                      LET cell == t.children[r].children[k]
                      IN  cell.m_col >= 0 =>
                              /\ SpanSum(t, r - 1, row_span(cell)) >= outer_height(cell)
                              /\ row_span(cell) = 1 =>
                                     Get(t.table).row_heights[r] >= outer_height(cell)
               /\ HeightsAfter(t, n) = Get(t.table).row_heights
               /\ \A j \in 1..n : \A i \in 1..n :
                      HeightsAfter(t, j - 1)[i] <= HeightsAfter(t, j)[i]
    /\ (pc \in {"placed", "paginated"} /\ HasColumns(TheTable(root))) =>
           LET t == TheTable(root)
           IN  \A r \in 1..Len(t.children) : \A k \in 1..Len(t.children[r].children) :
                   LET cell == t.children[r].children[k]
                   IN  cell.p_col >= 0 =>
                           cell.height >= SpanSum(t, r - 1, row_span(cell))
                                              - cell.margin_top - cell.margin_bottom

\* a placed table whose first row starts with a cell of row_span 2, of
\* outer height 126 pt with its margins: the whole of it went to the second
\* row, the first row then took the 21 pt of its plain cell, and the cell,
\* 84 pt high when measured, is placed 147 - 42 = 105 pt high
C24_Witness ==
    /\ pc = "placed"
    /\ HasColumns(TheTable(root))
    /\ Len(TheTable(root).children) = 2
    /\ Get(TheTable(root).table).row_heights = << Pts(21), Pts(126) >>
    /\ LET cell == TheTable(root).children[1].children[1]
       IN  /\ row_span(cell) = 2 /\ cell.p_col = 0
           /\ outer_height(MeasuredTable.children[1].children[1]) = Pts(126)
           /\ cell.height = Pts(105)

-----------------------------------------------------------------------------
\* the left edge of column c (from 0) of the placed table t
ColumnLeft(t, c) ==
    t.x + padding_trbl(t.node.style)[4]
        + SumSeq(SubSeq(Get(t.table).column_widths, 1, c)) + TableGap(t) * c

\* the top of row r (from 1) of the placed table t
RowTop(t, r) ==
    t.y - padding_trbl(t.node.style)[1]
        - SumSeq([i \in 1..(r - 1) |-> Get(t.table).row_heights[i] + TableGap(t)])

\* C25: after place_table a cell that starts in column c has its outer
\* left edge at table.x + pad_l + the widths of the columns before c
\* + gap * c, whether those columns hold cells of its row or are passed
\* over because a row-spanning cell of an earlier row occupies them; and
\* row r has y = table.y - pad_t - the heights and gaps of the rows before
\* it, x = table.x + pad_l, width = the column widths and the gaps between
\* them, height = row_heights[r].
C25_CellEdges ==
    (pc \in {"placed", "paginated"} /\ HasColumns(TheTable(root))) =>
        LET t == TheTable(root)
        IN  \A r \in 1..Len(t.children) :
                LET row == t.children[r]
                IN  /\ row.x = t.x + padding_trbl(t.node.style)[4]
                    /\ row.y = RowTop(t, r)
                    /\ row.width = GridWidth(t)
                    /\ row.height = Get(t.table).row_heights[r]
                    /\ \A k \in 1..Len(row.children) :
                           row.children[k].p_col >= 0 =>
                               row.children[k].x - row.children[k].margin_left
                                   = ColumnLeft(t, row.children[k].p_col)

-----------------------------------------------------------------------------
(***************************************************************************)
(* Pinned documents: a page holding a view of 210 x 210 pt, a column or a *)
(* row, with or without padding, whose children are a flow image and one  *)
(* absolute child: an image, a view, a table, a row or a cell, with each  *)
(* combination of left, right, top and bottom.                            *)
(***************************************************************************)
PinnedKinds ==
    { Image(42, 42, << >>),
      Styled("view", << >>, << Image(21, 21, << >>) >>),
      Styled("table", << >>,
             << Styled("row", << >>,
                       << Styled("cell", << >>, << Image(21, 21, << >>) >>) >>) >>),
      Styled("row", << >>, << Styled("cell", << >>, << Image(21, 21, << >>) >>) >>),
      Styled("cell", << >>, << Image(21, 21, << >>) >>) }

PinnedAcross == { << >>, [left |-> Pts(21)], [right |-> Pts(21)],
                  [left |-> Pts(21), right |-> Pts(42)] }

PinnedDown == { << >>, [top |-> Pts(21)], [bottom |-> Pts(21)],
                [top |-> Pts(21), bottom |-> Pts(42)] }

\* the node with the style fields of over set
Restyled(node, over) ==
    [node EXCEPT !.style = [f \in DOMAIN DefaultStyle |->
                               IF f \in DOMAIN over THEN Some(over[f]) ELSE node.style[f]]]

PinnedDocs ==
    { Styled("page", << >>,
        << Styled("view",
                  [width |-> Pt(Pts(210)), height |-> Pt(Pts(210))] @@ d @@ pad,
                  << Image(42, 42, << >>),
                     Restyled(kind, [position |-> "absolute"] @@ h @@ v) >>) >>) :
        d \in {<< >>, [direction |-> "row"]},
        pad \in {<< >>, [padding |-> Pts(21)]},
        kind \in PinnedKinds, h \in PinnedAcross, v \in PinnedDown }

InitPinned == InitOf(PinnedDocs)

SpecPinned == InitPinned /\ [][Next]_vars

\* the absolute child as placed and as measured
Pinned == TheView(root).children[2]
PinnedMeasured == MeasuredView.children[2]

\* where the claim puts the absolute child a of the container c
PinnedX(c, a) ==
    LET pad == padding_trbl(c.node.style)
    IN  IF IsSome(a.node.style.left) THEN c.x + pad[4] + Get(a.node.style.left)
        ELSE IF IsSome(a.node.style.right)
             THEN c.x + c.width - pad[2] - a.width - Get(a.node.style.right)
             ELSE c.x + pad[4]

PinnedY(c, a) ==
    LET pad == padding_trbl(c.node.style)
    IN  IF IsSome(a.node.style.top) THEN c.y - pad[1] - Get(a.node.style.top)
        ELSE IF IsSome(a.node.style.bottom)
             THEN c.y - c.height + pad[3] + a.height + Get(a.node.style.bottom)
             ELSE c.y - pad[1]

-----------------------------------------------------------------------------
\* C26: an absolute child is positioned against its own container, by left
\* before right before the left padding edge and by top before bottom
\* before the top padding edge, and its descendants are then placed
\* relative to that position, whether the child is a view, a table, a row
\* or a cell.
C26_AbsolutePlaced ==
    pc \in {"placed", "paginated"} =>
        /\ Pinned.x = PinnedX(TheView(root), Pinned)
        /\ Pinned.y = PinnedY(TheView(root), Pinned)
        /\ Pinned.children = place_layout(PinnedMeasured, Pinned.x, Pinned.y).children

-----------------------------------------------------------------------------
\* C27: place_table gives every cell the starting column and the clamped
\* column span that measure_table measured it with, and places every cell
\* that measure_table measured: the two records of active row spans agree
\* at the start of every row, also after rows with fewer cells than
\* columns and rows with no cells.
C27_SameColumns ==
    (pc \in {"placed", "paginated"} /\ HasColumns(TheTable(root))) =>
        LET t == TheTable(root)
        IN  \A r \in 1..Len(t.children) : \A k \in 1..Len(t.children[r].children) :
                LET cell == t.children[r].children[k]
                IN  /\ cell.p_col = cell.m_col
                    /\ cell.p_span = cell.m_span

-----------------------------------------------------------------------------
\* the grid positions <<row, column>> of the cell k of row r of the table
\* t, for a cell that starts in column col with the column span span
CellArea(t, r, k, col, span) ==
    LET cell == t.children[r].children[k]
    IN  IF col < 0 THEN {}
        ELSE (r..Min2(r + row_span(cell) - 1, Len(t.children)))
                 \X (col..(col + span - 1))

MeasuredArea(t, r, k) ==
    CellArea(t, r, k, t.children[r].children[k].m_col, t.children[r].children[k].m_span)

PlacedArea(t, r, k) ==
    CellArea(t, r, k, t.children[r].children[k].p_col, t.children[r].children[k].p_span)

\* the cells of the table, as <<row, index in the row>>
CellsOf(t) ==
    UNION { { <<r, k>> : k \in 1..Len(t.children[r].children) } : r \in 1..Len(t.children) }

\* C28: no position of the grid is occupied by two cells, in the grid of
\* measure_table and in that of place_table: a column span does not reach
\* over a column that a row-spanning cell of an earlier row still
\* occupies, and a row-spanning cell does not overlap a cell of a later row.
C28_NoOverlap ==
    /\ (pc \in {"measured", "placed", "paginated"} /\ HasColumns(MeasuredTable)) =>
           \A a, b \in CellsOf(MeasuredTable) :
               a # b => MeasuredArea(MeasuredTable, a[1], a[2])
                            \cap MeasuredArea(MeasuredTable, b[1], b[2]) = {}
    /\ (pc \in {"placed", "paginated"} /\ HasColumns(TheTable(root))) =>
           \A a, b \in CellsOf(TheTable(root)) :
               a # b => PlacedArea(TheTable(root), a[1], a[2])
                            \cap PlacedArea(TheTable(root), b[1], b[2]) = {}

-----------------------------------------------------------------------------
(***************************************************************************)
(* Relative documents: a page holding a view of 210 x 210 pt, a column or *)
(* a row, whose second of three children has position = relative and each *)
(* combination of left, right, top and bottom: an image, a view holding   *)
(* an image, or a view holding a view holding an image.                   *)
(***************************************************************************)
RelativeKinds ==
    { Image(42, 42, << >>),
      Styled("view", << >>, << Image(21, 21, << >>) >>),
      Styled("view", << >>, << Styled("view", << >>, << Image(21, 21, << >>) >>) >>) }

RelativeDocs ==
    { Styled("page", << >>,
        << Styled("view", [width |-> Pt(Pts(210)), height |-> Pt(Pts(210))] @@ d,
                  << Image(42, 42, << >>),
                     Restyled(kind, [position |-> "relative"] @@ h @@ v),
                     Image(42, 42, << >>) >>) >>) :
        d \in {<< >>, [direction |-> "row"]},
        kind \in RelativeKinds, h \in PinnedAcross, v \in PinnedDown }

InitRelative == InitOf(RelativeDocs)

SpecRelative == InitRelative /\ [][Next]_vars

RECURSIVE WithoutOffsets(_)
\* the tree with top, bottom, left and right taken from every box
WithoutOffsets(b) ==
    [b EXCEPT !.node.style.top = None, !.node.style.bottom = None,
              !.node.style.left = None, !.node.style.right = None,
              !.children = [i \in 1..Len(b.children) |-> WithoutOffsets(b.children[i])]]

\* the measured tree placed with no offsets
PlacedPlain == place_layout(WithoutOffsets(Get(measured)), 0, PAGE_HEIGHT_PT)

RECURSIVE MovedBy(_, _, _, _)
\* box b is box a moved by dx, dy, and so is every descendant
MovedBy(a, b, dx, dy) ==
    /\ b.x = a.x + dx
    /\ b.y = a.y + dy
    /\ b.width = a.width /\ b.height = a.height
    /\ Len(b.children) = Len(a.children)
    /\ \A i \in 1..Len(a.children) : MovedBy(a.children[i], b.children[i], dx, dy)

\* the relative box
Offset == TheView(root).children[2]

-----------------------------------------------------------------------------
\* C29: a box with position = relative is moved by its offsets (down by
\* top, up by bottom, right by left, left by right) together with its
\* whole subtree, every descendant keeping its position relative to the
\* box; its siblings are where they are without the offsets and its parent
\* has the size it has without them.
C29_RelativeSubtree ==
    pc \in {"placed", "paginated"} =>
        LET c == TheView(root)
            plain == TheView(PlacedPlain)
            st == Offset.node.style
            dx == UnwrapOr(st.left, 0) - UnwrapOr(st.right, 0)
            dy == UnwrapOr(st.bottom, 0) - UnwrapOr(st.top, 0)
        IN  /\ MovedBy(plain.children[2], Offset, dx, dy)
            /\ MovedBy(plain.children[1], c.children[1], 0, 0)
            /\ MovedBy(plain.children[3], c.children[3], 0, 0)
            /\ c.width = plain.width /\ c.height = plain.height
            /\ c.x = plain.x /\ c.y = plain.y

-----------------------------------------------------------------------------
\* the clone lies inside the content area of the output page that holds it
InContentArea(pg, b) ==
    /\ pg.padding_bottom <= b.y - b.height
    /\ b.y <= pg.height - pg.padding_top

\* the clone lies inside the physical page of 842 pt
InPhysicalPage(b) ==
    /\ 0 <= b.y - b.height
    /\ b.y <= PAGE_HEIGHT_PT

\* the direct child straddles the lower edge of a page band before paginate
Straddles(page, child) ==
    LET cb == padding_trbl(page.node.style)[3]
        ch == ContentHeight(page)
        k == PageIndex(child)
    IN  /\ ch > 0
        /\ ChildBottom(child) < cb - (k - 1) * ch
        /\ child.y > cb - (k - 1) * ch

\* C30: after paginate of a Page root placed at (0, 842), every direct
\* child no higher than content_height lies inside the content area of its
\* output page (content_bottom <= bottom and top <= content_top after the
\* re-offset) and inside the physical page of 842 pt, whether or not it
\* straddled a page boundary and whether or not the page has an explicit
\* height.
C30_InsidePage ==
    (pc = "paginated" /\ ContentPage.node.node_type = "page") =>
        \A k \in 1..Len(pages) :
            \A q \in 1..Len(pages[k].children) :
                LET pg == pages[k]
                    b == pg.children[q]
                IN  b.height <= pg.height - pg.padding_top - pg.padding_bottom =>
                        /\ InContentArea(pg, b)
                        /\ InPhysicalPage(b)

====
